---- MODULE Spec2Model ----
(***************************************************************************)
(* Rvik Razor: the pure functions of coordinator.py (the regulation         *)
(* decision engine, the down-capacity estimate and the effective target)   *)
(* and the coordinator that runs them on every tick.                       *)
(*                                                                         *)
(* Units.  Python floats are modelled by exact integers: power in mW       *)
(* (1 kW = 1 000 000), energy in mWh, time in seconds.  The engine only    *)
(* adds, subtracts and compares these quantities, so the scaling keeps     *)
(* every comparison of the source, including the 0.01 kW threshold.        *)
(*                                                                         *)
(* Optional values (Python None) are sequences: <<>> is None, <<v>> is v.  *)
(***************************************************************************)
EXTENDS Integers, Sequences, FiniteSets, TLC

VARIABLES
    loads,      \* list[Load]: the Load Model, in configuration order
    args,       \* the arguments of the last call, besides the loads
    result,     \* what the call returned
    pc,         \* "idle" before the call; after it, the name of what ran
    config,     \* self.config: the options of the config entry
    hass,       \* hass.states: the state of every entity, by entity id
    calls,      \* hass.services.async_call: the calls of the last tick
    clock,      \* time.time() and datetime.now(), in seconds
    data,       \* what the last tick returned, or its UpdateFailed
    runtime,    \* self.last_hour and self.last_action
    issued      \* per load, when a service call for it last returned (0: never)

\* The coordinator's own state and its surroundings.
coordinator == <<config, hass, calls, clock, data, runtime, issued>>

vars == <<loads, args, result, pc, config, hass, calls, clock, data, runtime, issued>>

----------------------------------------------------------------------------
\* Optional values

None == <<>>

Some(v) == <<v>>

IsNone(x) == x = <<>>

Val(x) == x[1]

\* The pure functions are called on their own, without a coordinator.
Detached ==
    /\ config = None
    /\ hass = None
    /\ calls = <<>>
    /\ clock = 0
    /\ data = None
    /\ runtime = None
    /\ issued = <<>>

----------------------------------------------------------------------------
\* Bounds of the model

\* Longest load list given to the engine.
MaxLoads == 3

\* Priorities are drawn from 1..MaxPriority.
MaxPriority == 2

\* needed_reduction_kw is drawn from 0, 0.01 kW and 1 kW .. MaxNeed kW.
MaxNeed == 3

----------------------------------------------------------------------------
\* Program constants

\* needed_reduction_kw > 0.01 and remaining_reduction <= 0.01, in mW.
Threshold == 10000

\* remaining_minutes < 5: the end-of-hour window.
EndOfHourMinutes == 5

----------------------------------------------------------------------------
\* The Load Model (const.py, class Load) and the inputs the model draws

SWITCH == "switch"

EV_AMPERE == "ev_ampere"

\* 1 kW in mW (1 kWh in mWh): a hundred times the 0.01 kW threshold.
KW == 100 * Threshold

\* The instant of the call (current_time); last_action_time is drawn relative
\* to it.
Now == 1000

\* What a device is and what it currently reports: the type-specific
\* configuration and the live readings of one load.  One entry per case the
\* engine tells apart.
\* A switch that is ON, known by its assumed power (2 kW) only.
HeaterOn ==
    [load_type |-> SWITCH, switch_inverted |-> FALSE, current_switch_state |-> Some("on"),
     current_power_kw |-> None, assumed_power_kw |-> Some(2 * KW),
     current_ampere |-> None, measured_power_per_ampere |-> None,
     phases |-> 3, voltage |-> 400, timeout |-> 60]

\* An inverted switch that is OFF (consuming), measured at 0.75 kW.
InvertedPumpOff ==
    [load_type |-> SWITCH, switch_inverted |-> TRUE, current_switch_state |-> Some("off"),
     current_power_kw |-> Some(75 * Threshold), assumed_power_kw |-> None,
     current_ampere |-> None, measured_power_per_ampere |-> None,
     phases |-> 3, voltage |-> 400, timeout |-> 120]

\* A switch whose state is unknown, measured at 0 kW, assumed 1 kW.
SwitchUnknown ==
    [load_type |-> SWITCH, switch_inverted |-> FALSE, current_switch_state |-> None,
     current_power_kw |-> Some(0), assumed_power_kw |-> Some(KW),
     current_ampere |-> None, measured_power_per_ampere |-> None,
     phases |-> 3, voltage |-> 400, timeout |-> 60]

\* A switch that is OFF: already in its reduced state.  Its cooldown is 30 s.
HeaterOff ==
    [load_type |-> SWITCH, switch_inverted |-> FALSE, current_switch_state |-> Some("off"),
     current_power_kw |-> None, assumed_power_kw |-> Some(2 * KW),
     current_ampere |-> None, measured_power_per_ampere |-> None,
     phases |-> 3, voltage |-> 400, timeout |-> 30]

\* A 1-phase 230 V EV charger drawing 10 A, with no power sensor: 2.3 kW.
EvCharging ==
    [load_type |-> EV_AMPERE, switch_inverted |-> FALSE, current_switch_state |-> None,
     current_power_kw |-> None, assumed_power_kw |-> None,
     current_ampere |-> Some(10), measured_power_per_ampere |-> None,
     phases |-> 1, voltage |-> 230, timeout |-> 120]

\* A switch that is ON with neither a power reading nor an assumed power.
SwitchNoPower ==
    [load_type |-> SWITCH, switch_inverted |-> FALSE, current_switch_state |-> Some("on"),
     current_power_kw |-> None, assumed_power_kw |-> None,
     current_ampere |-> None, measured_power_per_ampere |-> None,
     phases |-> 3, voltage |-> 400, timeout |-> 60]

Devices ==
    { HeaterOn, InvertedPumpOff, SwitchUnknown, HeaterOff, SwitchNoPower, EvCharging }

\* last_action_time: never acted on (0.0), or acted on 30 s ago, which is
\* inside a 60 s or 120 s cooldown and exactly at the end of a 30 s one.
LastActionTimes == { 0, Now - 30 }

\* A Load: a device with its control attributes and runtime state.
MakeLoad(dev, nm, pri, en, lat) ==
    [name |-> nm, load_type |-> dev.load_type, priority |-> pri, enabled |-> en,
     assumed_power_kw |-> dev.assumed_power_kw,
     phases |-> dev.phases, voltage |-> dev.voltage,
     switch_inverted |-> dev.switch_inverted,
     timeout |-> dev.timeout,
     last_action_time |-> lat,
     measured_power_per_ampere |-> dev.measured_power_per_ampere,
     current_switch_state |-> dev.current_switch_state,
     current_power_kw |-> dev.current_power_kw,
     current_ampere |-> dev.current_ampere]

\* Load names are unique within a budget instance: the i-th configured load.
LoadName(i) == i

\* Every load the model can put at position i of the list: every device at
\* every priority, acted on or not, enabled; and disabled loads of both types
\* at every priority that no cooldown would hold back.
LoadsAt(i) ==
    { MakeLoad(dev, LoadName(i), pri, TRUE, lat) :
        dev \in Devices, pri \in 1..MaxPriority, lat \in LastActionTimes }
    \cup
    { MakeLoad(dev, LoadName(i), pri, FALSE, 0) :
        dev \in { HeaterOn, EvCharging }, pri \in 1..MaxPriority }

\* Every load list of length n, in configuration order.
RECURSIVE LoadLists(_)
LoadLists(n) ==
    IF n = 0 THEN { <<>> }
    ELSE { Append(l, x) : l \in LoadLists(n - 1), x \in LoadsAt(n) }

----------------------------------------------------------------------------
\* Python's sorted(): stable, by priority

\* InsertByPriority putting x before the elements of equal priority: a sort
\* that is not stable.
RECURSIVE M_InsertByPriority(_, _, _)
M_InsertByPriority(xs, x, reverse) ==
    IF xs = <<>> THEN <<x>>
    ELSE IF (IF reverse THEN Head(xs).priority <= x.priority
                        ELSE Head(xs).priority >= x.priority)
         THEN <<x>> \o xs
         ELSE <<Head(xs)>> \o M_InsertByPriority(Tail(xs), x, reverse)

\* xs with x put after every element that does not sort behind it, so that
\* elements of equal priority keep the order in which they are inserted.
RECURSIVE InsertByPriority(_, _, _)
InsertByPriority(xs, x, reverse) ==
    IF xs = <<>> THEN <<x>>
    ELSE IF (IF reverse THEN Head(xs).priority < x.priority
                        ELSE Head(xs).priority > x.priority)
         THEN <<x>> \o xs
         ELSE <<Head(xs)>> \o InsertByPriority(Tail(xs), x, reverse)

\* SortedByPriority leaving the list in the order it is given.
M_SortedByPriority(xs, reverse) == xs

\* sorted(xs, key=lambda x: x.priority, reverse=reverse)
RECURSIVE SortedByPriority(_, _)
SortedByPriority(xs, reverse) ==
    IF xs = <<>> THEN <<>>
    ELSE InsertByPriority(SortedByPriority(SubSeq(xs, 1, Len(xs) - 1), reverse),
                          xs[Len(xs)], reverse)

\* EnabledLoads without the filter on load.enabled.
M_EnabledLoads(ls) == ls

\* [load for load in loads if load.enabled]
EnabledLoads(ls) == SelectSeq(ls, LAMBDA l : l.enabled)

----------------------------------------------------------------------------
\* The per-load estimators and planners

\* power_per_ampere from configured phases and voltage, in mW per ampere:
\* (voltage * 1.732) / 1000 kW for 3 phases, voltage / 1000 kW otherwise.
PowerPerAmpere(load) ==
    IF load.phases = 3 THEN load.voltage * 1732 ELSE load.voltage * 1000

\* IsConsuming taking every state but the reduced one, an unknown state
\* included, for consuming.
M_IsConsuming(load) ==
    IF load.switch_inverted
    THEN load.current_switch_state # Some("on")
    ELSE load.current_switch_state # Some("off")

\* A switch is consuming when it is ON, or OFF when inverted; an unknown
\* state (None) compares unequal to both.
IsConsuming(load) ==
    IF load.switch_inverted
    THEN load.current_switch_state = Some("off")
    ELSE load.current_switch_state = Some("on")

\* load.current_power_kw is not None and load.current_power_kw > 0
HasMeasuredPower(load) ==
    ~IsNone(load.current_power_kw) /\ Val(load.current_power_kw) > 0

\* load.assumed_power_kw or 0.0
AssumedOrZero(load) ==
    IF IsNone(load.assumed_power_kw) THEN 0 ELSE Val(load.assumed_power_kw)

\* _calculate_load_reduction_potential going by the current of an EV charger
\* alone, whatever its power sensor reads.
M_CalculateLoadReductionPotential(load) ==
    IF load.load_type = SWITCH THEN
        IF IsConsuming(load)
        THEN IF HasMeasuredPower(load) THEN Val(load.current_power_kw)
             ELSE AssumedOrZero(load)
        ELSE 0
    ELSE IF ~IsNone(load.current_ampere) /\ Val(load.current_ampere) > 0
    THEN IF ~IsNone(load.measured_power_per_ampere)
         THEN Val(load.current_ampere) * Val(load.measured_power_per_ampere)
         ELSE Val(load.current_ampere) * PowerPerAmpere(load)
    ELSE 0

\* _calculate_load_reduction_potential
CalculateLoadReductionPotential(load) ==
    IF load.load_type = SWITCH THEN
        IF IsConsuming(load)
        THEN IF HasMeasuredPower(load) THEN Val(load.current_power_kw)
             ELSE AssumedOrZero(load)
        ELSE 0
    ELSE IF load.load_type = EV_AMPERE THEN
        IF HasMeasuredPower(load) THEN Val(load.current_power_kw)
        ELSE IF ~IsNone(load.current_ampere) /\ Val(load.current_ampere) > 0
        THEN IF ~IsNone(load.measured_power_per_ampere)
             THEN Val(load.current_ampere) * Val(load.measured_power_per_ampere)
             ELSE Val(load.current_ampere) * PowerPerAmpere(load)
        ELSE 0
    ELSE 0

\* CalculateEvReduction estimating the reduction from the charger's draw.
M_CalculateEvReduction(load, needed_reduction) ==
    Some([load |-> load.name, type |-> EV_AMPERE,
          reduction_kw |-> CalculateLoadReductionPotential(load),
          new_value |-> None, needed_reduction |-> needed_reduction])

\* _calculate_ev_reduction: a placeholder plan, 0 kW until executed.
CalculateEvReduction(load, needed_reduction) ==
    Some([load |-> load.name, type |-> EV_AMPERE, reduction_kw |-> 0,
          new_value |-> None, needed_reduction |-> needed_reduction])

\* SwitchAlreadyReduced taking a switch whose state is unknown for reduced.
M_SwitchAlreadyReduced(load) ==
    IF load.switch_inverted
    THEN load.current_switch_state # Some("off")
    ELSE load.current_switch_state # Some("on")

\* _calculate_switch_reduction: None when the switch is already reduced.
SwitchAlreadyReduced(load) ==
    IF load.switch_inverted
    THEN load.current_switch_state = Some("on")
    ELSE ~IsNone(load.current_switch_state) /\ load.current_switch_state # Some("on")

SwitchReductionKw(load) ==
    IF HasMeasuredPower(load) THEN Val(load.current_power_kw)
    ELSE AssumedOrZero(load)

\* CalculateSwitchReduction taking a switch whose state is unknown for
\* already reduced, as the potential estimator does.
M_CalculateSwitchReduction(load, needed_reduction) ==
    IF IsNone(load.current_switch_state) \/ SwitchAlreadyReduced(load) THEN None
    ELSE Some([load |-> load.name, type |-> SWITCH, reduction_kw |-> SwitchReductionKw(load),
               new_value |-> Some(IF load.switch_inverted THEN "on" ELSE "off"),
               needed_reduction |-> needed_reduction])

CalculateSwitchReduction(load, needed_reduction) ==
    IF SwitchAlreadyReduced(load) THEN None
    ELSE Some([load |-> load.name, type |-> SWITCH, reduction_kw |-> SwitchReductionKw(load),
               new_value |-> Some(IF load.switch_inverted THEN "on" ELSE "off"),
               needed_reduction |-> needed_reduction])

\* _calculate_load_reduction
CalculateLoadReduction(load, needed_reduction) ==
    IF load.load_type = EV_AMPERE THEN CalculateEvReduction(load, needed_reduction)
    ELSE IF load.load_type = SWITCH THEN CalculateSwitchReduction(load, needed_reduction)
    ELSE None

----------------------------------------------------------------------------
\* calculate_regulation_decision

\* The reason string, kept as its parts: which message it is, the load names
\* it lists, the count, power (mW / mWh) and seconds it prints.
Reason(kind, names, count, kw, secs) ==
    [kind |-> kind, names |-> names, count |-> count, kw |-> kw, secs |-> secs]

NoReason == Reason("", <<>>, 0, 0, 0)

\* The result dict as first built.
InitialResult ==
    [action |-> "none", loads_to_reduce |-> <<>>, loads_to_restore |-> <<>>,
     remaining_reduction |-> 0, reason |-> NoReason]

\* EndOfHourSafetyTrigger with current_power_kw > max_hour_kwh for >=.
M_EndOfHourSafetyTrigger(current_power_kw, remaining_minutes, max_hour_kwh) ==
    /\ ~IsNone(current_power_kw)
    /\ ~IsNone(remaining_minutes)
    /\ Val(remaining_minutes) < EndOfHourMinutes
    /\ Val(current_power_kw) > max_hour_kwh

\* The end-of-hour safety check.
EndOfHourSafetyTrigger(current_power_kw, remaining_minutes, max_hour_kwh) ==
    /\ ~IsNone(current_power_kw)
    /\ ~IsNone(remaining_minutes)
    /\ Val(remaining_minutes) < EndOfHourMinutes
    /\ Val(current_power_kw) >= max_hour_kwh

\* NeedsReduction with >= 0.01 for > 0.01.
M_NeedsReduction(needed_reduction_kw) == needed_reduction_kw >= Threshold

\* if needed_reduction_kw > 0.01
NeedsReduction(needed_reduction_kw) == needed_reduction_kw > Threshold

\* HasRestoreMargin with <= for <.
M_HasRestoreMargin(projected_end_kwh, max_hour_kwh, restore_margin) ==
    projected_end_kwh <= max_hour_kwh - restore_margin

\* elif projected_end_kwh < (max_hour_kwh - restore_margin)
HasRestoreMargin(projected_end_kwh, max_hour_kwh, restore_margin) ==
    projected_end_kwh < max_hour_kwh - restore_margin

\* InCooldown with the comparison turned round.
M_InCooldown(load, current_time) ==
    current_time - load.last_action_time > load.timeout

\* current_time - load.last_action_time < load.timeout
InCooldown(load, current_time) ==
    current_time - load.last_action_time < load.timeout

\* load_timeout - (current_time - load.last_action_time)
CooldownRemaining(load, current_time) ==
    load.timeout - (current_time - load.last_action_time)

\* TotalCooldownPotential counting the first load on cooldown only.
M_TotalCooldownPotential(lcs) ==
    IF lcs = <<>> THEN 0 ELSE Head(lcs).potential_kw

\* sum(lc["potential_kw"] for lc in loads_on_cooldown_with_capacity)
RECURSIVE TotalCooldownPotential(_)
TotalCooldownPotential(lcs) ==
    IF lcs = <<>> THEN 0
    ELSE Head(lcs).potential_kw + TotalCooldownPotential(Tail(lcs))

\* CooldownCoversNeed with > for >=.
M_CooldownCoversNeed(lcs, remaining_reduction) ==
    TotalCooldownPotential(lcs) > remaining_reduction

\* if total_cooldown_potential >= remaining_reduction: the loads on cooldown
\* can cover the remaining need.
CooldownCoversNeed(lcs, remaining_reduction) ==
    TotalCooldownPotential(lcs) >= remaining_reduction

\* MinCooldownRemaining taking the largest for the smallest.
RECURSIVE M_MinCooldownRemaining(_)
M_MinCooldownRemaining(lcs) ==
    IF Len(lcs) = 1 THEN Head(lcs).cooldown_remaining
    ELSE LET m == M_MinCooldownRemaining(Tail(lcs))
         IN  IF Head(lcs).cooldown_remaining > m THEN Head(lcs).cooldown_remaining ELSE m

\* min(lc["cooldown_remaining"] for lc in loads_on_cooldown_with_capacity)
RECURSIVE MinCooldownRemaining(_)
MinCooldownRemaining(lcs) ==
    IF Len(lcs) = 1 THEN Head(lcs).cooldown_remaining
    ELSE LET m == MinCooldownRemaining(Tail(lcs))
         IN  IF Head(lcs).cooldown_remaining < m THEN Head(lcs).cooldown_remaining ELSE m

\* NeedCovered without the 0.01 kW tolerance.
M_NeedCovered(remaining_reduction) == remaining_reduction <= 0

\* if remaining_reduction <= 0.01: break
NeedCovered(remaining_reduction) == remaining_reduction <= Threshold

\* for load in sorted_loads: ... (the body of the loop, from position i on).
\* w carries remaining_reduction, loads_to_reduce and
\* loads_on_cooldown_with_capacity.
RECURSIVE ReductionWalk(_, _, _, _)
ReductionWalk(sorted_loads, i, w, current_time) ==
    IF i > Len(sorted_loads) THEN w
    ELSE IF NeedCovered(w.remaining_reduction) THEN w
    ELSE
      LET load == sorted_loads[i] IN
      IF InCooldown(load, current_time) THEN
        LET potential == CalculateLoadReductionPotential(load) IN
        IF potential > 0
        THEN ReductionWalk(sorted_loads, i + 1,
               [w EXCEPT !.loads_on_cooldown_with_capacity =
                           Append(@, [load |-> load.name, potential_kw |-> potential,
                                      cooldown_remaining |->
                                          CooldownRemaining(load, current_time)])],
               current_time)
        ELSE ReductionWalk(sorted_loads, i + 1, w, current_time)
      ELSE
        LET reduction_info == CalculateLoadReduction(load, w.remaining_reduction) IN
        IF ~IsNone(reduction_info) THEN
          IF CooldownCoversNeed(w.loads_on_cooldown_with_capacity, w.remaining_reduction)
          THEN ReductionWalk(sorted_loads, i + 1, w, current_time)
          ELSE ReductionWalk(sorted_loads, i + 1,
                 [w EXCEPT !.loads_to_reduce = Append(@, Val(reduction_info)),
                           !.remaining_reduction = @ - Val(reduction_info).reduction_kw],
                 current_time)
        ELSE ReductionWalk(sorted_loads, i + 1, w, current_time)

\* WalkFrom with remaining_reduction left at the 0.0 of the initial result.
M_WalkFrom(ls, needed_reduction_kw, current_time) ==
    ReductionWalk(SortedByPriority(EnabledLoads(ls), FALSE), 1,
                  [remaining_reduction |-> 0,
                   loads_to_reduce |-> <<>>,
                   loads_on_cooldown_with_capacity |-> <<>>],
                  current_time)

\* The walk over sorted(enabled loads) from remaining_reduction = needed_reduction_kw.
WalkFrom(ls, needed_reduction_kw, current_time) ==
    ReductionWalk(SortedByPriority(EnabledLoads(ls), FALSE), 1,
                  [remaining_reduction |-> needed_reduction_kw,
                   loads_to_reduce |-> <<>>,
                   loads_on_cooldown_with_capacity |-> <<>>],
                  current_time)

\* A list of loads as the list of their names: the model holds a reference to
\* a Load object as the load's name.
Names(xs) == [k \in 1..Len(xs) |-> xs[k].name]

\* ReduceBranch answering "none" whenever the walk leaves a need uncovered,
\* whatever it has planned.
M_ReduceBranch(ls, a) ==
    LET w == WalkFrom(ls, a.needed_reduction_kw, a.current_time) IN
    [InitialResult EXCEPT
        !.action = IF NeedCovered(w.remaining_reduction) THEN "reduce" ELSE "none",
        !.loads_to_reduce = w.loads_to_reduce,
        !.remaining_reduction = w.remaining_reduction,
        !.reason = Reason("planning", <<>>, Len(w.loads_to_reduce),
                          a.needed_reduction_kw, 0)]

\* The reduce branch: if needed_reduction_kw > 0.01.
ReduceBranch(ls, a) ==
    LET w == WalkFrom(ls, a.needed_reduction_kw, a.current_time)
        lcs == w.loads_on_cooldown_with_capacity
        total == TotalCooldownPotential(lcs)
        base == [InitialResult EXCEPT !.action = "reduce",
                                      !.loads_to_reduce = w.loads_to_reduce,
                                      !.remaining_reduction = w.remaining_reduction]
    IN
    IF w.loads_to_reduce # <<>>
    THEN [base EXCEPT !.reason = Reason("planning", <<>>, Len(w.loads_to_reduce),
                                        a.needed_reduction_kw, 0)]
    ELSE IF total >= a.needed_reduction_kw
    THEN [base EXCEPT !.action = "none",
                      !.reason = Reason("waiting_for_cooldown",
                                        [k \in 1..Len(lcs) |-> lcs[k].load],
                                        0, total, MinCooldownRemaining(lcs))]
    ELSE [base EXCEPT !.reason = Reason("no_loads_available", <<>>, 0,
                                        a.needed_reduction_kw, 0)]

\* EligibleLoads keeping only the first eligible load.
M_EligibleLoads(ls, current_time) ==
    LET all == SelectSeq(SortedByPriority(EnabledLoads(ls), TRUE),
                         LAMBDA l : ~InCooldown(l, current_time))
    IN  IF all = <<>> THEN <<>> ELSE <<Head(all)>>

\* eligible_loads: the enabled loads, highest priority first, not in cooldown.
EligibleLoads(ls, current_time) ==
    SelectSeq(SortedByPriority(EnabledLoads(ls), TRUE),
              LAMBDA l : ~InCooldown(l, current_time))

\* RestoreBranch without the end-of-hour safety check.
M_RestoreBranch(ls, a) ==
    IF EnabledLoads(ls) # <<>> THEN
      LET eligible_loads == SelectSeq(SortedByPriority(EnabledLoads(ls), TRUE),
                                      LAMBDA l : ~InCooldown(l, a.current_time)) IN
      IF eligible_loads # <<>>
      THEN [InitialResult EXCEPT !.action = "restore",
                                 !.loads_to_restore = Names(eligible_loads),
                                 !.reason = Reason("sufficient_margin", Names(eligible_loads), 0,
                                                   a.max_hour_kwh - a.projected_end_kwh, 0)]
      ELSE [InitialResult EXCEPT !.reason = Reason("all_loads_in_cooldown", <<>>, 0, 0, 0)]
    ELSE [InitialResult EXCEPT !.reason = Reason("within_safe_range", <<>>, 0,
                                                 a.projected_end_kwh, 0)]

\* The restore branch: elif projected_end_kwh < (max_hour_kwh - restore_margin).
RestoreBranch(ls, a) ==
    IF EndOfHourSafetyTrigger(a.current_power_kw, a.remaining_minutes, a.max_hour_kwh)
    THEN [InitialResult EXCEPT !.reason = Reason("holding_high_power", <<>>, 0,
                                                 a.max_hour_kwh - a.projected_end_kwh, 0)]
    ELSE IF EnabledLoads(ls) # <<>> THEN
      LET eligible_loads == EligibleLoads(ls, a.current_time) IN
      IF eligible_loads # <<>>
      THEN [InitialResult EXCEPT !.action = "restore",
                                 !.loads_to_restore = Names(eligible_loads),
                                 !.reason = Reason("sufficient_margin", Names(eligible_loads), 0,
                                                   a.max_hour_kwh - a.projected_end_kwh, 0)]
      ELSE [InitialResult EXCEPT !.reason = Reason("all_loads_in_cooldown", <<>>, 0, 0, 0)]
    ELSE [InitialResult EXCEPT !.reason = Reason("within_safe_range", <<>>, 0,
                                                 a.projected_end_kwh, 0)]

\* calculate_regulation_decision measuring every load's cooldown by the
\* cooldown argument of the call.
M_CalculateRegulationDecision(ls, a) ==
    LET timed == [i \in 1..Len(ls) |-> [ls[i] EXCEPT !.timeout = a.cooldown]] IN
    IF NeedsReduction(a.needed_reduction_kw) THEN ReduceBranch(timed, a)
    ELSE IF HasRestoreMargin(a.projected_end_kwh, a.max_hour_kwh, a.restore_margin)
    THEN RestoreBranch(timed, a)
    ELSE [InitialResult EXCEPT !.reason = Reason("within_safe_range", <<>>, 0,
                                                 a.projected_end_kwh, 0)]

\* calculate_regulation_decision
CalculateRegulationDecision(ls, a) ==
    IF NeedsReduction(a.needed_reduction_kw) THEN ReduceBranch(ls, a)
    ELSE IF HasRestoreMargin(a.projected_end_kwh, a.max_hour_kwh, a.restore_margin)
    THEN RestoreBranch(ls, a)
    ELSE [InitialResult EXCEPT !.reason = Reason("within_safe_range", <<>>, 0,
                                                 a.projected_end_kwh, 0)]

----------------------------------------------------------------------------
\* The calls the model makes

\* max_hour_kwh and restore_margin of the call (5 kWh and 0.5 kWh, as in the tests).
MaxHourKwh == 5 * KW

RestoreMargin == 50 * Threshold

\* needed_reduction_kw within the 0.01 kW tolerance: 0 and exactly 0.01 kW.
NoNeedValues == { 0, Threshold }

\* needed_reduction_kw over it: 1 kW .. MaxNeed kW.
NeededValues == { k * KW : k \in 1..MaxNeed }

\* needed_reduction_kw of 0.755 kW: 0.005 kW more than the measured draw of
\* the inverted pump, so that planning the pump leaves a need within the
\* 0.01 kW tolerance.
JustOverPump == 75 * Threshold + Threshold \div 2

\* projected_end_kwh: below, exactly at and above max_hour_kwh - restore_margin.
ProjectedValues ==
    { MaxHourKwh - RestoreMargin - Threshold, MaxHourKwh - RestoreMargin, MaxHourKwh }

\* (current_power_kw, remaining_minutes): absent, inside and at the edge of the
\* end-of-hour window, with power at and just below max_hour_kwh.
SafetyInputs ==
    { <<None, None>>,
      <<Some(MaxHourKwh), Some(EndOfHourMinutes - 1)>>,
      <<Some(MaxHourKwh - Threshold), Some(EndOfHourMinutes - 1)>>,
      <<Some(MaxHourKwh), Some(EndOfHourMinutes)>> }

\* The calls: <<needed_reduction_kw, projected_end_kwh, (current_power_kw,
\* remaining_minutes)>>.  Within budget, every projection with every safety
\* input; over budget (the projection is above max_hour_kwh), every needed
\* reduction with the end-of-hour trigger off and on, and the need just over
\* the pump's draw.
CallInputs ==
    (NoNeedValues \X ProjectedValues \X SafetyInputs)
    \cup
    (NeededValues \X { MaxHourKwh + KW }
        \X { <<None, None>>, <<Some(MaxHourKwh), Some(EndOfHourMinutes - 1)>> })
    \cup
    { <<JustOverPump, MaxHourKwh + KW, <<None, None>>>> }

\* DEFAULT_COOLDOWN, the cooldown argument when the caller gives none, in s.
DefaultCooldown == 120

Args(needed, projected, safety) ==
    [needed_reduction_kw |-> needed, projected_end_kwh |-> projected,
     max_hour_kwh |-> MaxHourKwh, current_time |-> Now,
     current_power_kw |-> safety[1], remaining_minutes |-> safety[2],
     restore_margin |-> RestoreMargin, cooldown |-> DefaultCooldown]

NoArgs == Args(0, 0, <<None, None>>)

----------------------------------------------------------------------------
\* The state machine: a load list, then one call of the engine on it

Init ==
    /\ loads \in UNION { LoadLists(n) : n \in 0..MaxLoads }
    /\ args = NoArgs
    /\ result = InitialResult
    /\ pc = "idle"
    /\ Detached

\* Decide with the engine sorting the caller's list in place (loads.sort)
\* where it takes a sorted copy.
M_Decide ==
    /\ pc = "idle"
    /\ \E c \in CallInputs :
         LET a == Args(c[1], c[2], c[3]) IN
         /\ args' = a
         /\ result' = CalculateRegulationDecision(loads, a)
         /\ loads' = IF NeedsReduction(a.needed_reduction_kw)
                     THEN SortedByPriority(loads, FALSE)
                     ELSE loads
    /\ pc' = "decided"
    /\ UNCHANGED coordinator

\* decision = calculate_regulation_decision(loads, ...)
Decide ==
    /\ pc = "idle"
    /\ \E c \in CallInputs :
         LET a == Args(c[1], c[2], c[3]) IN
         /\ args' = a
         /\ result' = CalculateRegulationDecision(loads, a)
    /\ pc' = "decided"
    /\ UNCHANGED <<loads, coordinator>>

Next == Decide

Spec == Init /\ [][Next]_vars

----------------------------------------------------------------------------
\* Vocabulary of the properties, stated on the inputs and the returned dict

Decided == pc = "decided"

\* Load names are list positions, so loads[n] is the load named n.
LoadIndexes == 1..Len(loads)

PlannedNames ==
    { result.loads_to_reduce[k].load : k \in 1..Len(result.loads_to_reduce) }

RestoreNames ==
    { result.loads_to_restore[k] : k \in 1..Len(result.loads_to_restore) }

\* now - lastActionTime < cooldown, for the load at position i.
Cooling(i) == args.current_time - loads[i].last_action_time < loads[i].timeout

\* Not already in the reduced state: any EV charger, and a switch unless it
\* is known to be OFF (ON when inverted).
Reducible(i) ==
    \/ loads[i].load_type = EV_AMPERE
    \/ /\ loads[i].load_type = SWITCH
       /\ IF loads[i].switch_inverted
          THEN loads[i].current_switch_state # Some("on")
          ELSE loads[i].current_switch_state \in { None, Some("on") }

\* remainingMinutes < 5 and currentPower >= maxPower, both known.
SafetyTriggered ==
    /\ args.current_power_kw # None
    /\ args.remaining_minutes # None
    /\ Val(args.remaining_minutes) < 5
    /\ Val(args.current_power_kw) >= args.max_hour_kwh

\* Load j comes before load i in the stable ascending priority order.
Precedes(j, i) ==
    \/ loads[j].priority < loads[i].priority
    \/ loads[j].priority = loads[i].priority /\ j < i

RECURSIVE SumSeq(_)
SumSeq(xs) == IF xs = <<>> THEN 0 ELSE Head(xs) + SumSeq(Tail(xs))

\* The need left when the walk reaches load i: needed_reduction_kw less the
\* reduction_kw of the plans of the loads before it.
RemainingAt(i) ==
    args.needed_reduction_kw
      - SumSeq([k \in 1..Len(result.loads_to_reduce) |->
                  IF Precedes(result.loads_to_reduce[k].load, i)
                  THEN result.loads_to_reduce[k].reduction_kw ELSE 0])

\* The summed reduction potential of the enabled loads on cooldown before load i.
CoolingPotentialBefore(i) ==
    SumSeq([j \in 1..Len(loads) |->
              IF loads[j].enabled /\ Cooling(j) /\ Precedes(j, i)
              THEN CalculateLoadReductionPotential(loads[j]) ELSE 0])

\* Load i is a candidate the walk reaches: enabled, outside its cooldown,
\* reducible, with more than 0.01 kW still needed.
ReachedCandidate(i) ==
    /\ loads[i].enabled
    /\ ~Cooling(i)
    /\ Reducible(i)
    /\ RemainingAt(i) > Threshold

\* Load i is skipped because the loads on cooldown before it cover the need.
SkippedForCooldown(i) ==
    /\ ReachedCandidate(i)
    /\ i \notin PlannedNames
    /\ CoolingPotentialBefore(i) >= RemainingAt(i)

----------------------------------------------------------------------------
\* Properties of calculate_regulation_decision

\* C1: whenever needed_reduction_kw <= 0.01 the returned action is not
\* "reduce" and loads_to_reduce is empty.
C1_NoReduceWithinTolerance ==
    (Decided /\ args.needed_reduction_kw <= Threshold)
        => (result.action # "reduce" /\ result.loads_to_reduce = <<>>)

\* A call with exactly 0.01 kW needed on a list holding an enabled, consuming
\* switch that no cooldown holds back.
C1_Witness ==
    /\ Decided
    /\ args.needed_reduction_kw = Threshold
    /\ \E i \in LoadIndexes :
         loads[i].enabled /\ ~Cooling(i) /\ loads[i].current_switch_state = Some("on")

\* C2: a load with current_time - last_action_time < its cooldown is in
\* neither loads_to_reduce nor loads_to_restore of the decision.
C2_CoolingLoadsUntouched ==
    Decided =>
        \A i \in LoadIndexes :
            Cooling(i) => (i \notin PlannedNames /\ i \notin RestoreNames)

\* A Reduce decision that plans a load while an enabled, consuming load of
\* lower priority is on cooldown.
C2_Witness ==
    /\ Decided
    /\ result.action = "reduce"
    /\ \E i \in LoadIndexes, j \in PlannedNames :
         /\ loads[i].enabled /\ Cooling(i)
         /\ CalculateLoadReductionPotential(loads[i]) > 0
         /\ loads[i].priority < loads[j].priority

\* C3: a load with enabled = false is in neither loads_to_reduce nor
\* loads_to_restore, whatever its priority, type or state.
C3_DisabledLoadsUntouched ==
    Decided =>
        \A i \in LoadIndexes :
            ~loads[i].enabled => (i \notin PlannedNames /\ i \notin RestoreNames)

\* A Reduce decision that plans a load while a disabled consuming load of
\* lower priority, on no cooldown, is in the list.
C3_Witness ==
    /\ Decided
    /\ result.action = "reduce"
    /\ \E i \in LoadIndexes, j \in PlannedNames :
         /\ ~loads[i].enabled /\ ~Cooling(i) /\ Reducible(i)
         /\ loads[i].priority < loads[j].priority

\* C4: in a Reduce decision the plans are in ascending priority order, and
\* plans of equal priority are in the order of the input list.
C4_ReductionOrder ==
    (Decided /\ result.action = "reduce") =>
        \A k \in 1..(Len(result.loads_to_reduce) - 1) :
            LET p == result.loads_to_reduce[k].load
                q == result.loads_to_reduce[k + 1].load
            IN  \/ loads[p].priority < loads[q].priority
                \/ loads[p].priority = loads[q].priority /\ p < q

\* Three plans: the first load of the list has the highest priority and is
\* planned last, the other two tie and keep their input order.
C4_Witness ==
    /\ Decided
    /\ result.action = "reduce"
    /\ Len(result.loads_to_reduce) = 3
    /\ result.loads_to_reduce[1].load = 2
    /\ result.loads_to_reduce[2].load = 3
    /\ result.loads_to_reduce[3].load = 1
    /\ loads[2].priority = loads[3].priority
    /\ loads[3].priority < loads[1].priority

\* C5: in a Restore decision loads_to_restore is exactly the enabled loads
\* with current_time - last_action_time >= their cooldown, each once, in
\* descending priority order.
C5_RestoreList ==
    (Decided /\ result.action = "restore") =>
        /\ RestoreNames = { i \in LoadIndexes : loads[i].enabled /\ ~Cooling(i) }
        /\ Len(result.loads_to_restore) = Cardinality(RestoreNames)
        /\ \A k \in 1..(Len(result.loads_to_restore) - 1) :
             loads[result.loads_to_restore[k]].priority
                >= loads[result.loads_to_restore[k + 1]].priority

\* A Restore decision listing two loads, the later one of the input first,
\* while a third enabled load is left out on cooldown.
C5_Witness ==
    /\ Decided
    /\ result.action = "restore"
    /\ Len(result.loads_to_restore) = 2
    /\ result.loads_to_restore[1] > result.loads_to_restore[2]
    /\ loads[result.loads_to_restore[1]].priority > loads[result.loads_to_restore[2]].priority
    /\ \E i \in LoadIndexes : loads[i].enabled /\ Cooling(i)

\* C6: with needed_reduction_kw <= 0.01 and no end-of-period trigger, a
\* projection exactly at max_hour_kwh - restore_margin gives action "none",
\* and a projection strictly below it, with an enabled load outside its
\* cooldown, gives action "restore".
C6_MarginBoundary ==
    (Decided /\ args.needed_reduction_kw <= Threshold /\ ~SafetyTriggered) =>
        /\ (args.projected_end_kwh = args.max_hour_kwh - args.restore_margin)
               => result.action = "none"
        /\ ( /\ args.projected_end_kwh < args.max_hour_kwh - args.restore_margin
             /\ \E i \in LoadIndexes : loads[i].enabled /\ ~Cooling(i) )
               => result.action = "restore"

\* A call exactly at the margin boundary, with a load that could be restored.
C6_Witness ==
    /\ Decided
    /\ args.needed_reduction_kw <= Threshold
    /\ ~SafetyTriggered
    /\ args.projected_end_kwh = args.max_hour_kwh - args.restore_margin
    /\ \E i \in LoadIndexes : loads[i].enabled /\ ~Cooling(i)
    /\ result.action = "none"

\* C7: with remaining_minutes < 5, current_power_kw >= max_hour_kwh and
\* needed_reduction_kw <= 0.01 the action is "none" and loads_to_restore is
\* empty, however far the projection lies below the margin.
C7_EndOfPeriodHoldsRestore ==
    (Decided /\ SafetyTriggered /\ args.needed_reduction_kw <= Threshold) =>
        (result.action = "none" /\ result.loads_to_restore = <<>>)

\* The trigger holds back a restoration the margin allows: the projection is
\* below the margin and an enabled load is outside its cooldown.
C7_Witness ==
    /\ Decided
    /\ SafetyTriggered
    /\ args.needed_reduction_kw <= Threshold
    /\ args.projected_end_kwh < args.max_hour_kwh - args.restore_margin
    /\ \E i \in LoadIndexes : loads[i].enabled /\ ~Cooling(i)
    /\ result.action = "none"

\* C8 as stated: whenever remaining_minutes < 5 and current_power_kw >=
\* max_hour_kwh the action is "none", also when needed_reduction_kw > 0.01.
C8_TriggerForcesNone ==
    (Decided /\ SafetyTriggered) => result.action = "none"

\* C8, amended: whenever remaining_minutes < 5 and current_power_kw >=
\* max_hour_kwh the decision restores nothing (the action is not "restore"
\* and loads_to_restore is empty), and the action is "reduce" only when
\* needed_reduction_kw > 0.01.
C8_TriggerForbidsRestore ==
    (Decided /\ SafetyTriggered) =>
        /\ result.action \in { "none", "reduce" }
        /\ result.loads_to_restore = <<>>
        /\ result.action = "reduce" => args.needed_reduction_kw > Threshold

\* The trigger is on and the engine still plans a reduction.
C8_Witness ==
    /\ Decided
    /\ SafetyTriggered
    /\ args.needed_reduction_kw > Threshold
    /\ result.action = "reduce"
    /\ result.loads_to_reduce # <<>>

\* The enabled loads on cooldown that have reduction potential.
CoolingWithPotential ==
    { i \in LoadIndexes :
        loads[i].enabled /\ Cooling(i) /\ CalculateLoadReductionPotential(loads[i]) > 0 }

\* The reason is the waiting-for-cooldown message, naming exactly the loads on
\* cooldown with potential and the soonest cooldown expiry among them.
ReasonIsWaiting ==
    /\ result.reason.kind = "waiting_for_cooldown"
    /\ { result.reason.names[k] : k \in 1..Len(result.reason.names) } = CoolingWithPotential
    /\ \E i \in CoolingWithPotential :
         result.reason.secs = loads[i].timeout - (args.current_time - loads[i].last_action_time)
    /\ \A i \in CoolingWithPotential :
         result.reason.secs <= loads[i].timeout - (args.current_time - loads[i].last_action_time)

\* C9 as stated: whenever a reducible load outside its cooldown is skipped
\* because the loads on cooldown before it cover the remaining need, the
\* action is "none" and the reason names the cooling-down loads and the
\* soonest cooldown expiry.
C9_SkipMeansWaiting ==
    (Decided /\ args.needed_reduction_kw > Threshold
       /\ \E i \in LoadIndexes : SkippedForCooldown(i))
        => (result.action = "none" /\ ReasonIsWaiting)

\* C9, amended: whenever such a load is skipped and the decision plans no
\* load at all, the action is "none" and the reason names the cooling-down
\* loads and the soonest cooldown expiry; when a load before the skipped one
\* was planned, the action stays "reduce".
C9_SkipWithoutPlanMeansWaiting ==
    (Decided /\ args.needed_reduction_kw > Threshold
       /\ \E i \in LoadIndexes : SkippedForCooldown(i))
        => IF result.loads_to_reduce = <<>>
           THEN result.action = "none" /\ ReasonIsWaiting
           ELSE result.action = "reduce"

\* A load is skipped, nothing is planned, and two loads on cooldown with
\* different times left are waited for.
C9_Witness ==
    /\ Decided
    /\ args.needed_reduction_kw > Threshold
    /\ \E i \in LoadIndexes : SkippedForCooldown(i)
    /\ result.loads_to_reduce = <<>>
    /\ \E i, j \in CoolingWithPotential : loads[i].timeout < loads[j].timeout

\* C10: a reducible enabled load outside its cooldown that the walk reaches
\* with more than 0.01 kW still needed is left out of the plan if and only if
\* the summed reduction potential of the enabled loads on cooldown before it
\* in priority order is >= the need remaining at that point; loads on
\* cooldown after it never count.
C10_DeferralRule ==
    (Decided /\ args.needed_reduction_kw > Threshold) =>
        \A i \in LoadIndexes :
            ReachedCandidate(i) =>
                (i \notin PlannedNames <=> CoolingPotentialBefore(i) >= RemainingAt(i))

\* A load is planned although a load of higher priority is on cooldown with
\* potential covering the whole need, and another load is left out because a
\* load before it is on cooldown.
C10_Witness ==
    /\ Decided
    /\ args.needed_reduction_kw > Threshold
    /\ \E i \in PlannedNames, j \in CoolingWithPotential :
         /\ Precedes(i, j)
         /\ CalculateLoadReductionPotential(loads[j]) >= args.needed_reduction_kw
    /\ \E i \in LoadIndexes : SkippedForCooldown(i)

----------------------------------------------------------------------------
\* Degenerate inputs, scenarios and the accounting of the walk

\* The load at position i is enabled, outside its cooldown and not already
\* in its reduced state.
Available(i) == loads[i].enabled /\ ~Cooling(i) /\ Reducible(i)

\* What a switch draws as far as the engine knows: nothing unless it is in
\* its consuming state (ON, or OFF when inverted), else the power reading if
\* it is > 0, else the assumed power, else 0.
SwitchDraw(i) ==
    IF \/ loads[i].switch_inverted /\ loads[i].current_switch_state = Some("off")
       \/ ~loads[i].switch_inverted /\ loads[i].current_switch_state = Some("on")
    THEN IF loads[i].current_power_kw # None /\ Val(loads[i].current_power_kw) > 0
         THEN Val(loads[i].current_power_kw)
         ELSE IF loads[i].assumed_power_kw # None THEN Val(loads[i].assumed_power_kw)
         ELSE 0
    ELSE 0

\* The summed reduction potential of all enabled loads on cooldown.
CoolingPotential ==
    SumSeq([j \in 1..Len(loads) |->
              IF loads[j].enabled /\ Cooling(j)
              THEN CalculateLoadReductionPotential(loads[j]) ELSE 0])

\* Empty load list, all loads disabled, or all loads inside their cooldown.
DegenerateInput ==
    \/ loads = <<>>
    \/ \A i \in LoadIndexes : ~loads[i].enabled
    \/ \A i \in LoadIndexes : Cooling(i)

\* C11 as stated: on a degenerate input the decision's action is "none" and
\* its reason is not empty.
C11_DegenerateGivesNone ==
    (Decided /\ DegenerateInput) =>
        (result.action = "none" /\ result.reason.kind # "")

\* C11, amended: on a degenerate input the decision is a well-formed result
\* with a non-empty reason that plans and restores no load; its action is
\* "none" when needed_reduction_kw <= 0.01 or the loads on cooldown cover the
\* need, and "reduce" (with an empty plan) otherwise.
C11_DegenerateActsOnNothing ==
    (Decided /\ DegenerateInput) =>
        /\ result.reason.kind # ""
        /\ result.loads_to_reduce = <<>>
        /\ result.loads_to_restore = <<>>
        /\ result.action =
             IF args.needed_reduction_kw <= Threshold
                  \/ CoolingPotential >= args.needed_reduction_kw
             THEN "none" ELSE "reduce"

\* Two or more loads, all on cooldown, whose summed potential covers a need
\* that the first of them alone does not: the engine waits.
C11_Witness ==
    /\ Decided
    /\ Len(loads) >= 2
    /\ \A i \in LoadIndexes : loads[i].enabled /\ Cooling(i)
    /\ args.needed_reduction_kw > Threshold
    /\ \A i \in LoadIndexes :
         CalculateLoadReductionPotential(loads[i]) < args.needed_reduction_kw
    /\ result.action = "none"

\* C12: with no enabled load (or an empty list) and needed_reduction_kw >
\* 0.01 the action is "reduce", loads_to_reduce is empty, remaining_reduction
\* equals needed_reduction_kw and the reason is "no loads available to
\* reduce".
C12_NoLoadsToReduce ==
    (Decided /\ args.needed_reduction_kw > Threshold
       /\ \A i \in LoadIndexes : ~loads[i].enabled) =>
        /\ result.action = "reduce"
        /\ result.loads_to_reduce = <<>>
        /\ result.remaining_reduction = args.needed_reduction_kw
        /\ result.reason.kind = "no_loads_available"
        /\ result.reason.kw = args.needed_reduction_kw

\* A call needing a reduction on a list of disabled, consuming loads only.
C12_Witness ==
    /\ Decided
    /\ args.needed_reduction_kw > Threshold
    /\ loads # <<>>
    /\ \A i \in LoadIndexes : ~loads[i].enabled /\ Reducible(i)
    /\ result.action = "reduce"

\* Scenario C on loads c and h: two enabled switches, c of lower priority
\* inside its cooldown, h of higher priority outside its cooldown and
\* reducible, and 1.0 kW needed.
ScenarioC(c, h) ==
    /\ Len(loads) = 2
    /\ c # h
    /\ loads[c].load_type = SWITCH /\ loads[h].load_type = SWITCH
    /\ loads[c].enabled /\ loads[h].enabled
    /\ loads[c].priority < loads[h].priority
    /\ Cooling(c)
    /\ ~Cooling(h) /\ Reducible(h)
    /\ args.needed_reduction_kw = KW

\* The plan list holds exactly the load h.
PlansExactly(h) ==
    /\ Len(result.loads_to_reduce) = 1
    /\ result.loads_to_reduce[1].load = h

\* C13 as stated: in Scenario C the decision is "reduce" and plans exactly
\* the higher-priority load, whatever the cooling-down load reports.
C13_OnlyTheFreeLoad ==
    Decided =>
        \A c, h \in LoadIndexes :
            ScenarioC(c, h) => (result.action = "reduce" /\ PlansExactly(h))

\* C13, amended: in Scenario C the decision is "reduce" and plans exactly
\* the higher-priority load when the cooling-down load draws less than the
\* 1.0 kW needed; when it draws 1.0 kW or more the higher-priority load is
\* deferred, nothing is planned and the action is "none", waiting for the
\* cooldown.
C13_FreeLoadUnlessCovered ==
    Decided =>
        \A c, h \in LoadIndexes :
            ScenarioC(c, h) =>
                IF SwitchDraw(c) < args.needed_reduction_kw
                THEN result.action = "reduce" /\ PlansExactly(h)
                ELSE /\ result.action = "none"
                     /\ result.loads_to_reduce = <<>>
                     /\ result.reason.kind = "waiting_for_cooldown"

\* Scenario C with a cooling-down load of unknown state that reports no
\* draw: the higher-priority load is planned.
C13_Witness ==
    /\ Decided
    /\ \E c, h \in LoadIndexes :
         /\ ScenarioC(c, h)
         /\ loads[c].current_switch_state = None
         /\ PlansExactly(h)
         /\ result.action = "reduce"

\* The need left before the k-th plan: needed_reduction_kw less the
\* reduction_kw of the plans chosen before it.
NeedBeforePlan(k) ==
    args.needed_reduction_kw
      - SumSeq([m \in 1..(k - 1) |-> result.loads_to_reduce[m].reduction_kw])

\* C14: a plan is appended only while the need less the summed reduction_kw
\* of the plans already chosen is > 0.01, so no load is planned once the
\* plans before it cover the need.
C14_WalkStopsWhenCovered ==
    (Decided /\ args.needed_reduction_kw > Threshold) =>
        \A k \in 1..Len(result.loads_to_reduce) : NeedBeforePlan(k) > Threshold

\* As in Scenario A: the plans leave a need within the 0.01 kW tolerance,
\* and an EV charger of higher priority that could be reduced is left alone.
C14_Witness ==
    /\ Decided
    /\ result.action = "reduce"
    /\ result.loads_to_reduce # <<>>
    /\ result.remaining_reduction > 0
    /\ result.remaining_reduction <= Threshold
    /\ \E i \in LoadIndexes :
         /\ loads[i].load_type = EV_AMPERE
         /\ Available(i)
         /\ i \notin PlannedNames
         /\ \A j \in PlannedNames : loads[j].priority < loads[i].priority

\* remaining_reduction is needed_reduction_kw less the reduction_kw of every
\* plan, where an EV plan and a plan of a switch with neither a power
\* reading > 0 nor an assumed power count 0 kW.
RemainingIsAccounted ==
    /\ result.remaining_reduction = NeedBeforePlan(Len(result.loads_to_reduce) + 1)
    /\ \A k \in 1..Len(result.loads_to_reduce) :
         LET plan == result.loads_to_reduce[k]
             load == loads[plan.load]
         IN  \/ plan.type = EV_AMPERE
             \/ /\ plan.type = SWITCH
                /\ ~(load.current_power_kw # None /\ Val(load.current_power_kw) > 0)
                /\ load.assumed_power_kw = None
             => plan.reduction_kw = 0

\* C15 as stated: with needed_reduction_kw > 0.01 the remaining reduction is
\* accounted as above, and when the plans cannot cover the need the action is
\* "reduce" with every available load planned.
C15_RemainingAndAllPlanned ==
    (Decided /\ args.needed_reduction_kw > Threshold) =>
        /\ RemainingIsAccounted
        /\ result.remaining_reduction > Threshold =>
             /\ result.action = "reduce"
             /\ \A i \in LoadIndexes : Available(i) => i \in PlannedNames

\* C15, amended: with needed_reduction_kw > 0.01 the remaining reduction is
\* accounted as above, and when the plans cannot cover the need every
\* available load is planned unless it was deferred because loads on cooldown
\* cover the remaining need; the action is "reduce" unless nothing was
\* planned and the loads on cooldown cover the need, and then it is "none".
C15_RemainingAccounted ==
    (Decided /\ args.needed_reduction_kw > Threshold) =>
        /\ RemainingIsAccounted
        /\ result.remaining_reduction > Threshold =>
             /\ result.action =
                  IF result.loads_to_reduce = <<>>
                       /\ CoolingPotential >= args.needed_reduction_kw
                  THEN "none" ELSE "reduce"
             /\ \A i \in LoadIndexes :
                  Available(i) => (i \in PlannedNames \/ SkippedForCooldown(i))

\* An EV charger, a switch without any power figure and a 1 kW switch are
\* all planned and 2 kW of the 3 kW needed stay uncovered.
C15_Witness ==
    /\ Decided
    /\ result.action = "reduce"
    /\ Len(result.loads_to_reduce) = 3
    /\ \E k \in 1..3 : result.loads_to_reduce[k].type = EV_AMPERE
    /\ \E k \in 1..3 :
         /\ result.loads_to_reduce[k].type = SWITCH
         /\ loads[result.loads_to_reduce[k].load].assumed_power_kw = None
         /\ loads[result.loads_to_reduce[k].load].current_power_kw = None
    /\ result.remaining_reduction > Threshold
    /\ result.remaining_reduction < args.needed_reduction_kw

----------------------------------------------------------------------------
\* calculate_available_down_capacity

\* Longest load list given to calculate_available_down_capacity.
MaxCapacityLoads == 2

\* A switch that is ON with a power reading (1.5 kW) and an assumed power (2 kW).
SwitchOnMeasured ==
    [load_type |-> SWITCH, switch_inverted |-> FALSE, current_switch_state |-> Some("on"),
     current_power_kw |-> Some(150 * Threshold), assumed_power_kw |-> Some(2 * KW),
     current_ampere |-> None, measured_power_per_ampere |-> None,
     phases |-> 3, voltage |-> 400, timeout |-> 60]

\* An inverted switch that is ON: in its reduced state.
InvertedPumpOn ==
    [load_type |-> SWITCH, switch_inverted |-> TRUE, current_switch_state |-> Some("on"),
     current_power_kw |-> None, assumed_power_kw |-> Some(KW),
     current_ampere |-> None, measured_power_per_ampere |-> None,
     phases |-> 3, voltage |-> 400, timeout |-> 60]

\* A 3-phase 400 V EV charger drawing 10 A, with no power sensor: 6.928 kW.
EvThreePhase ==
    [load_type |-> EV_AMPERE, switch_inverted |-> FALSE, current_switch_state |-> None,
     current_power_kw |-> None, assumed_power_kw |-> None,
     current_ampere |-> Some(10), measured_power_per_ampere |-> None,
     phases |-> 3, voltage |-> 400, timeout |-> 120]

\* An EV charger set to 0 A, with no power reading.
EvIdle ==
    [load_type |-> EV_AMPERE, switch_inverted |-> FALSE, current_switch_state |-> None,
     current_power_kw |-> None, assumed_power_kw |-> None,
     current_ampere |-> Some(0), measured_power_per_ampere |-> None,
     phases |-> 1, voltage |-> 230, timeout |-> 120]

\* An EV charger whose ampere entity is unavailable and whose power sensor
\* reads 0 kW.
EvNoReading ==
    [load_type |-> EV_AMPERE, switch_inverted |-> FALSE, current_switch_state |-> None,
     current_power_kw |-> Some(0), assumed_power_kw |-> None,
     current_ampere |-> None, measured_power_per_ampere |-> None,
     phases |-> 1, voltage |-> 230, timeout |-> 120]

\* An EV charger whose ampere entity is unavailable while its power sensor
\* reads 3.5 kW.
EvMeasuredOnly ==
    [load_type |-> EV_AMPERE, switch_inverted |-> FALSE, current_switch_state |-> None,
     current_power_kw |-> Some(350 * Threshold), assumed_power_kw |-> None,
     current_ampere |-> None, measured_power_per_ampere |-> None,
     phases |-> 1, voltage |-> 230, timeout |-> 120]

\* An EV charger drawing 8 A with a learned ratio of 0.25 kW per ampere.
EvLearned ==
    [load_type |-> EV_AMPERE, switch_inverted |-> FALSE, current_switch_state |-> None,
     current_power_kw |-> None, assumed_power_kw |-> None,
     current_ampere |-> Some(8), measured_power_per_ampere |-> Some(25 * Threshold),
     phases |-> 1, voltage |-> 230, timeout |-> 120]

\* With them, an inverted switch whose state is unknown and a switch that
\* reports a state that is neither ON nor OFF.
CapacityDevices ==
    Devices \cup { SwitchOnMeasured, InvertedPumpOn, EvThreePhase, EvIdle, EvNoReading,
                   EvMeasuredOnly, EvLearned,
                   [InvertedPumpOff EXCEPT !.current_switch_state = None],
                   [HeaterOn EXCEPT !.current_switch_state = Some("standby")] }

\* Every load at position i of a list given to the capacity estimate:
\* every device, enabled or not.  Priority and last_action_time play no
\* part in the estimate.
CapacityLoadsAt(i) ==
    { MakeLoad(dev, LoadName(i), 1, en, 0) : dev \in CapacityDevices, en \in BOOLEAN }

RECURSIVE CapacityLoadLists(_)
CapacityLoadLists(n) ==
    IF n = 0 THEN { <<>> }
    ELSE { Append(l, x) : l \in CapacityLoadLists(n - 1), x \in CapacityLoadsAt(n) }

\* LoadCapacity without the test of load.enabled.
M_LoadCapacity(load) ==
    IF load.load_type = SWITCH THEN
        LET is_consuming ==
              IF load.switch_inverted
              THEN load.current_switch_state = Some("off")
              ELSE load.current_switch_state = Some("on")
        IN  IF is_consuming
            THEN IF ~IsNone(load.current_power_kw) /\ Val(load.current_power_kw) > 0
                 THEN Val(load.current_power_kw)
                 ELSE AssumedOrZero(load)
            ELSE 0
    ELSE IF load.load_type = EV_AMPERE THEN
        IF ~IsNone(load.current_power_kw) /\ Val(load.current_power_kw) > 0
        THEN Val(load.current_power_kw)
        ELSE IF ~IsNone(load.current_ampere) /\ Val(load.current_ampere) > 0
        THEN IF ~IsNone(load.measured_power_per_ampere)
             THEN Val(load.current_ampere) * Val(load.measured_power_per_ampere)
             ELSE Val(load.current_ampere) * PowerPerAmpere(load)
        ELSE 0
    ELSE 0

\* What one pass of the loop adds to total_capacity for this load.
LoadCapacity(load) ==
    IF ~load.enabled THEN 0
    ELSE IF load.load_type = SWITCH THEN
        LET is_consuming ==
              IF load.switch_inverted
              THEN load.current_switch_state = Some("off")
              ELSE load.current_switch_state = Some("on")
        IN  IF is_consuming
            THEN IF ~IsNone(load.current_power_kw) /\ Val(load.current_power_kw) > 0
                 THEN Val(load.current_power_kw)
                 ELSE AssumedOrZero(load)
            ELSE 0
    ELSE IF load.load_type = EV_AMPERE THEN
        IF ~IsNone(load.current_power_kw) /\ Val(load.current_power_kw) > 0
        THEN Val(load.current_power_kw)
        ELSE IF ~IsNone(load.current_ampere) /\ Val(load.current_ampere) > 0
        THEN IF ~IsNone(load.measured_power_per_ampere)
             THEN Val(load.current_ampere) * Val(load.measured_power_per_ampere)
             ELSE Val(load.current_ampere) * PowerPerAmpere(load)
        ELSE 0
    ELSE 0

\* calculate_available_down_capacity: total_capacity after the loop.
RECURSIVE CalculateAvailableDownCapacity(_)
CalculateAvailableDownCapacity(ls) ==
    IF ls = <<>> THEN 0
    ELSE LoadCapacity(Head(ls)) + CalculateAvailableDownCapacity(Tail(ls))

\* A load list, then one call of calculate_available_down_capacity on it.
InitCapacity ==
    /\ loads \in UNION { CapacityLoadLists(n) : n \in 0..MaxCapacityLoads }
    /\ args = None
    /\ result = None
    /\ pc = "idle"
    /\ Detached

\* available_down_capacity = calculate_available_down_capacity(self.loads)
MeasureCapacity ==
    /\ pc = "idle"
    /\ result' = CalculateAvailableDownCapacity(loads)
    /\ pc' = "measured"
    /\ UNCHANGED <<loads, args, coordinator>>

NextCapacity == MeasureCapacity

\* A load list, then _calculate_load_reduction called on each of its loads.
PlanReductions ==
    /\ pc = "idle"
    /\ \E needed_reduction \in NeededValues \cup { JustOverPump } :
         /\ args' = [needed_reduction |-> needed_reduction]
         /\ result' = [i \in 1..Len(loads) |->
                          CalculateLoadReduction(loads[i], needed_reduction)]
    /\ pc' = "planned"
    /\ UNCHANGED <<loads, coordinator>>

SpecPlan == InitCapacity /\ [][PlanReductions]_vars

SpecCapacity == InitCapacity /\ [][NextCapacity]_vars

\* The load at position i is a switch in its consuming state: ON, or OFF
\* when inverted.
SwitchConsuming(i) ==
    /\ loads[i].load_type = SWITCH
    /\ \/ loads[i].switch_inverted /\ loads[i].current_switch_state = Some("off")
       \/ ~loads[i].switch_inverted /\ loads[i].current_switch_state = Some("on")

\* The load at position i has a power reading > 0.
PowerRead(i) ==
    loads[i].current_power_kw # None /\ Val(loads[i].current_power_kw) > 0

\* The load at position i is an EV charger whose current is > 0.
CurrentFlows(i) ==
    /\ loads[i].load_type = EV_AMPERE
    /\ loads[i].current_ampere # None
    /\ Val(loads[i].current_ampere) > 0

\* The best-known power of the load at position i: its power reading if
\* > 0; else for a switch its assumed power (0 if none), and for an EV
\* charger its current times the learned ratio or, without one, times
\* voltage (times 1.732 for 3 phases).
BestKnownPower(i) ==
    IF PowerRead(i) THEN Val(loads[i].current_power_kw)
    ELSE IF loads[i].load_type = SWITCH
    THEN (IF loads[i].assumed_power_kw = None THEN 0 ELSE Val(loads[i].assumed_power_kw))
    ELSE IF loads[i].current_ampere = None THEN 0
    ELSE Val(loads[i].current_ampere) *
           (IF loads[i].measured_power_per_ampere # None
            THEN Val(loads[i].measured_power_per_ampere)
            ELSE IF loads[i].phases = 3 THEN loads[i].voltage * 1732
            ELSE loads[i].voltage * 1000)

\* C16 as stated: the capacity is the summed best-known power of the enabled
\* loads in a consuming state (switch ON, or OFF when inverted; EV charger
\* with current > 0); every other load contributes 0.
C16_CapacityOfConsumingLoads ==
    pc = "measured" =>
        result = SumSeq([i \in 1..Len(loads) |->
                           IF loads[i].enabled /\ (SwitchConsuming(i) \/ CurrentFlows(i))
                           THEN BestKnownPower(i) ELSE 0])

\* C16, amended: as stated, except that an EV charger counts when its power
\* reading is > 0 (with that reading) or, failing that, when its current is
\* > 0; an EV charger with neither contributes 0.
C16_CapacityOfDrawingLoads ==
    pc = "measured" =>
        result = SumSeq([i \in 1..Len(loads) |->
                           IF /\ loads[i].enabled
                              /\ \/ SwitchConsuming(i)
                                 \/ loads[i].load_type = EV_AMPERE
                                      /\ (PowerRead(i) \/ CurrentFlows(i))
                           THEN BestKnownPower(i) ELSE 0])

\* A consuming enabled switch is counted next to a disabled one that is not.
C16_Witness ==
    /\ pc = "measured"
    /\ Len(loads) = 2
    /\ \E i, j \in LoadIndexes :
         /\ loads[i].enabled /\ SwitchConsuming(i) /\ PowerRead(i)
         /\ ~loads[j].enabled /\ SwitchConsuming(j)
         /\ result = Val(loads[i].current_power_kw)

----------------------------------------------------------------------------
\* calculate_effective_target

\* Fractions are rationals <<numerator, denominator>> with a positive
\* denominator; base_fraction is given in hundredths.
FractionScale == 100

\* min(base_fraction, 0.70), in hundredths.
ConservativeFraction == 70

\* down_capacity_ratio < 0.2, in hundredths.
LowCapacityRatio == 20

\* ramp_start_minutes is drawn from 1..MaxRamp and remaining_minutes from
\* 0..MaxRamp + 1.
MaxRamp == 4

RatLeq(a, b) == a[1] * b[2] <= b[1] * a[2]

RatEq(a, b) == a[1] * b[2] = b[1] * a[2]

\* LowDownCapacity taking a ratio of exactly 0.2 for low as well.
M_LowDownCapacity(available_down_capacity_kw, current_power_kw) ==
    /\ ~IsNone(current_power_kw)
    /\ ~IsNone(available_down_capacity_kw)
    /\ Val(current_power_kw) > 0
    /\ Val(available_down_capacity_kw) * FractionScale
          <= LowCapacityRatio * Val(current_power_kw)

\* Both known, current_power_kw > 0 and
\* available_down_capacity_kw / current_power_kw < 0.2.
LowDownCapacity(available_down_capacity_kw, current_power_kw) ==
    /\ ~IsNone(current_power_kw)
    /\ ~IsNone(available_down_capacity_kw)
    /\ Val(current_power_kw) > 0
    /\ Val(available_down_capacity_kw) * FractionScale
          < LowCapacityRatio * Val(current_power_kw)

\* effective_fraction, in hundredths.
EffectiveFraction(a) ==
    IF LowDownCapacity(a.available_down_capacity_kw, a.current_power_kw)
    THEN (IF a.base_fraction < ConservativeFraction
          THEN a.base_fraction ELSE ConservativeFraction)
    ELSE a.base_fraction

\* RampProgress growing with the minutes remaining.
M_RampProgress(remaining_minutes, ramp_start_minutes) ==
    <<remaining_minutes, ramp_start_minutes>>

\* ramp_progress = 1.0 - (remaining_minutes / ramp_start_minutes)
RampProgress(remaining_minutes, ramp_start_minutes) ==
    <<ramp_start_minutes - remaining_minutes, ramp_start_minutes>>

\* calculate_effective_target applying the derate within the ramp only:
\* the early hour uses base_fraction as given.
M_CalculateEffectiveTarget(a) ==
    LET fraction ==
          IF a.remaining_minutes <= a.ramp_start_minutes
          THEN <<EffectiveFraction(a) * a.ramp_start_minutes
                   + (FractionScale - EffectiveFraction(a))
                       * (a.ramp_start_minutes - a.remaining_minutes),
                 FractionScale * a.ramp_start_minutes>>
          ELSE <<a.base_fraction, FractionScale>>
    IN  [effective_target_kwh |-> <<a.max_hour_kwh * fraction[1], fraction[2]>>,
         fraction |-> fraction]

\* calculate_effective_target: (max_hour_kwh * fraction, fraction).
CalculateEffectiveTarget(a) ==
    LET effective_fraction == EffectiveFraction(a)
        fraction ==
          IF a.remaining_minutes <= a.ramp_start_minutes
          THEN LET ramp_progress == RampProgress(a.remaining_minutes, a.ramp_start_minutes)
               IN  <<effective_fraction * ramp_progress[2]
                       + (FractionScale - effective_fraction) * ramp_progress[1],
                     FractionScale * ramp_progress[2]>>
          ELSE <<effective_fraction, FractionScale>>
    IN  [effective_target_kwh |-> <<a.max_hour_kwh * fraction[1], fraction[2]>>,
         fraction |-> fraction]

\* base_fraction: 0, 0.5, exactly 0.70, the default 0.75 and 1.
BaseFractions == { 0, 50, ConservativeFraction, 75, FractionScale }

\* (available_down_capacity_kw, current_power_kw): unknown, one of them
\* unknown, no power, power fed back, and capacity at 0, 0.1, exactly 0.2
\* and 0.4 of a 5 kW power.
CapacityInputs ==
    { <<None, None>>, <<None, Some(5 * KW)>>, <<Some(KW), None>>,
      <<Some(0), Some(0)>>, <<Some(KW), Some(0 - KW)>>,
      <<Some(0), Some(5 * KW)>>, <<Some(50 * Threshold), Some(5 * KW)>>,
      <<Some(KW), Some(5 * KW)>>, <<Some(2 * KW), Some(5 * KW)>> }

\* max_hour_kwh of the call, in whole kWh (5 and 10): the function only
\* scales it by the fraction.
TargetMaxValues == { MaxHourKwh \div KW, 2 * (MaxHourKwh \div KW) }

TargetArgs(max, remaining, capacity, base, ramp) ==
    [max_hour_kwh |-> max, remaining_minutes |-> remaining,
     available_down_capacity_kw |-> capacity[1], current_power_kw |-> capacity[2],
     base_fraction |-> base, ramp_start_minutes |-> ramp]

\* One call of calculate_effective_target.
InitTarget ==
    /\ loads = <<>>
    /\ args = None
    /\ result = None
    /\ pc = "idle"
    /\ Detached

\* effective_target_kwh, target_fraction = calculate_effective_target(...)
ComputeTarget ==
    /\ pc = "idle"
    /\ \E max \in TargetMaxValues, remaining \in 0..(MaxRamp + 1),
          capacity \in CapacityInputs, base \in BaseFractions, ramp \in 1..MaxRamp :
         LET a == TargetArgs(max, remaining, capacity, base, ramp) IN
         /\ args' = a
         /\ result' = CalculateEffectiveTarget(a)
    /\ pc' = "targeted"
    /\ UNCHANGED <<loads, coordinator>>

NextTarget == ComputeTarget

SpecTarget == InitTarget /\ [][NextTarget]_vars

Targeted == pc = "targeted"

\* Current power and down capacity are both known, current power is > 0 and
\* downCapacity / currentPower < 0.2.
DerateApplies ==
    /\ args.current_power_kw # None
    /\ args.available_down_capacity_kw # None
    /\ Val(args.current_power_kw) > 0
    /\ 5 * Val(args.available_down_capacity_kw) < Val(args.current_power_kw)

\* The base fraction after the derate, as a rational.
DeratedBase ==
    IF DerateApplies /\ args.base_fraction > 70
    THEN <<70, 100>> ELSE <<args.base_fraction, 100>>

\* C17: for minutesRemaining >= 0, rampStartMinutes > 0 and 0 <= baseFraction
\* <= 1 the fraction lies between the (possibly derated) base and 1.0, so the
\* target is at most maxEnergy; it equals the base whenever minutesRemaining
\* >= rampStartMinutes and 1.0 when minutesRemaining = 0.
C17_FractionBetweenBaseAndOne ==
    Targeted =>
        /\ RatLeq(DeratedBase, result.fraction)
        /\ RatLeq(result.fraction, <<1, 1>>)
        /\ RatLeq(result.effective_target_kwh, <<args.max_hour_kwh, 1>>)
        /\ RatEq(result.effective_target_kwh,
                 <<args.max_hour_kwh * result.fraction[1], result.fraction[2]>>)
        /\ args.remaining_minutes >= args.ramp_start_minutes
              => RatEq(result.fraction, DeratedBase)
        /\ args.remaining_minutes = 0 => RatEq(result.fraction, <<1, 1>>)

\* At the end of the hour a derated base of 0.75 has ramped up to 1.0.
C17_Witness ==
    /\ Targeted
    /\ args.remaining_minutes = 0
    /\ DerateApplies
    /\ args.base_fraction > 70
    /\ RatEq(result.fraction, <<1, 1>>)

\* The fraction the ramp gives from base b: b before the ramp, and
\* b + (1 - b) * (1 - minutesRemaining / rampStartMinutes) within it.
RampedFrom(b) ==
    IF args.remaining_minutes <= args.ramp_start_minutes
    THEN <<b[1] * args.ramp_start_minutes
             + (b[2] - b[1]) * (args.ramp_start_minutes - args.remaining_minutes),
           b[2] * args.ramp_start_minutes>>
    ELSE b

\* C18: the derate applies if and only if current power and down capacity
\* are both known, current power is > 0 and downCapacity / currentPower <
\* 0.2; then the base used is min(baseFraction, 0.70), otherwise it is
\* baseFraction unchanged.
C18_DerateRule ==
    Targeted => RatEq(result.fraction, RampedFrom(DeratedBase))

\* A ratio of exactly 0.2 with a base of 0.75, before the ramp: no derate.
C18_Witness ==
    /\ Targeted
    /\ args.current_power_kw # None
    /\ args.available_down_capacity_kw # None
    /\ Val(args.current_power_kw) > 0
    /\ 5 * Val(args.available_down_capacity_kw) = Val(args.current_power_kw)
    /\ args.base_fraction = 75
    /\ args.remaining_minutes > args.ramp_start_minutes
    /\ RatEq(result.fraction, <<75, 100>>)

----------------------------------------------------------------------------
\* Home Assistant as the coordinator sees it: entity states and attributes

OFF == "off"

MONITOR == "monitor"

CONTROL == "control"

\* hass.states.get(entity_id) returning None.
Missing == [state |-> "missing", value |-> 0, unit |-> "", min |-> None, max |-> None]

\* A State whose state string spells no number: "unknown", "unavailable",
\* "on", "off", or anything else.
Text(s) == [state |-> s, value |-> 0, unit |-> "", min |-> None, max |-> None]

\* A sensor State whose state string spells a number, with its
\* unit_of_measurement.  value is that number: whole watts for a sensor in W,
\* mW for a sensor in kW and mWh for one in kWh (the scale of the model).
Reading(v, unit) ==
    [state |-> "number", value |-> v, unit |-> unit, min |-> None, max |-> None]

\* A number entity's State: whole amperes, with its min and max attributes.
Amperes(v, lo, hi) ==
    [state |-> "number", value |-> v, unit |-> "A", min |-> Some(lo), max |-> Some(hi)]

\* hass.states.get(entity_id)
StatesGet(entity_id) == hass[entity_id]

\* state is None or state.state in ("unknown", "unavailable")
Unavailable(state) ==
    state = Missing \/ state.state \in { "unknown", "unavailable" }

\* float(state.state) succeeds: the state string spells a number.
IsNumber(state) == state.state = "number"

\* The reading in kW: power_value / 1000.0 if the unit is "W", else
\* power_value.  A number of watts w is w / 1000 kW, which is w * 1000 mW.
PowerKw(state) ==
    IF state.unit = "W" THEN state.value * 1000 ELSE state.value

----------------------------------------------------------------------------
\* The configuration and the entities of the modelled installation

EnergySensor == "sensor.hour_energy"

HousePowerSensor == "sensor.house_power"

HeaterSwitch == "switch.heater"

ChargerAmpere == "number.charger_current"

ChargerPower == "sensor.charger_power"

ChargerEnabled == "input_boolean.charger_managed"

\* The load dicts of config[CONF_LOADS].
\* A water heater on a switch, 2 kW assumed, cut first.
HeaterDict ==
    [load_type |-> SWITCH, priority |-> 1, enabled |-> TRUE,
     enabled_entity_id |-> None, power_sensor_entity_id |-> None,
     assumed_power_kw |-> Some(2 * KW), ampere_number_entity_id |-> None,
     phases |-> 3, voltage |-> 400,
     switch_entity_id |-> Some(HeaterSwitch), switch_inverted |-> FALSE,
     timeout |-> 300]

\* The heaters an installation can have: that one; the same with no power
\* known (neither a sensor nor an assumed power); and one behind a blocking
\* relay, which draws while the switch is OFF.
HeaterDicts ==
    { HeaterDict,
      [HeaterDict EXCEPT !.assumed_power_kw = None],
      [HeaterDict EXCEPT !.switch_inverted = TRUE] }

\* A 1-phase 230 V EV charger with a power sensor and an enabled-override
\* entity, cut last.
ChargerDict ==
    [load_type |-> EV_AMPERE, priority |-> 2, enabled |-> TRUE,
     enabled_entity_id |-> Some(ChargerEnabled),
     power_sensor_entity_id |-> Some(ChargerPower),
     assumed_power_kw |-> None, ampere_number_entity_id |-> Some(ChargerAmpere),
     phases |-> 1, voltage |-> 230,
     switch_entity_id |-> None, switch_inverted |-> FALSE,
     timeout |-> 360]

\* Load.from_dict: the configured fields, and the runtime fields at their
\* defaults.
FromDict(d, nm) ==
    [name |-> nm, load_type |-> d.load_type, priority |-> d.priority,
     enabled |-> d.enabled,
     enabled_entity_id |-> d.enabled_entity_id,
     power_sensor_entity_id |-> d.power_sensor_entity_id,
     assumed_power_kw |-> d.assumed_power_kw,
     ampere_number_entity_id |-> d.ampere_number_entity_id,
     phases |-> d.phases, voltage |-> d.voltage,
     switch_entity_id |-> d.switch_entity_id,
     switch_inverted |-> d.switch_inverted,
     timeout |-> d.timeout,
     last_action_time |-> 0,
     measured_power_per_ampere |-> None,
     current_switch_state |-> None,
     current_power_kw |-> None,
     current_ampere |-> None]

\* _load_config: self.loads = [Load.from_dict(d) for d in config[CONF_LOADS]]
LoadConfig(cfg) == [i \in 1..Len(cfg.loads) |-> FromDict(cfg.loads[i], LoadName(i))]

\* The options of the entry: max_hour_kwh in whole kWh, base_target_fraction
\* in hundredths.
Config(mode, heater) ==
    [hour_energy_sensor |-> EnergySensor,
     house_power_sensor |-> Some(HousePowerSensor),
     max_hour_kwh |-> 5, mode |-> mode,
     base_target_fraction |-> 75, ramp_start_minutes |-> 10,
     loads |-> <<heater, ChargerDict>>]

----------------------------------------------------------------------------
\* _update_loads_runtime_state

\* str.lower() on the state strings of the model.
Lower(s) ==
    CASE s = "ON" -> "on"
      [] s = "True" -> "true"
      [] OTHER -> s

\* RefreshedEnabled leaving the flag as it was when the entity is absent,
\* unknown or unavailable.
M_RefreshedEnabled(load) ==
    IF IsNone(load.enabled_entity_id) THEN load.enabled
    ELSE LET state == StatesGet(Val(load.enabled_entity_id)) IN
         IF Unavailable(state) THEN load.enabled
         ELSE Lower(state.state) \in { "on", "true", "1" }

\* load.enabled after the refresh.
RefreshedEnabled(load) ==
    IF IsNone(load.enabled_entity_id) THEN load.enabled
    ELSE LET state == StatesGet(Val(load.enabled_entity_id)) IN
         IF Unavailable(state) THEN FALSE
         ELSE Lower(state.state) \in { "on", "true", "1" }

\* load.current_switch_state after the refresh.
RefreshedSwitchState(load) ==
    IF load.load_type = SWITCH /\ ~IsNone(load.switch_entity_id)
    THEN LET switch_state == StatesGet(Val(load.switch_entity_id)) IN
         IF ~Unavailable(switch_state) THEN Some(switch_state.state) ELSE None
    ELSE load.current_switch_state

\* load.current_ampere after the refresh.
RefreshedAmpere(load) ==
    IF load.load_type = EV_AMPERE /\ ~IsNone(load.ampere_number_entity_id)
    THEN LET ampere_state == StatesGet(Val(load.ampere_number_entity_id)) IN
         IF ~Unavailable(ampere_state) /\ IsNumber(ampere_state)
         THEN Some(ampere_state.value) ELSE None
    ELSE load.current_ampere

\* load.current_power_kw after the refresh.
RefreshedPowerKw(load) ==
    IF ~IsNone(load.power_sensor_entity_id)
    THEN LET power_state == StatesGet(Val(load.power_sensor_entity_id)) IN
         IF ~Unavailable(power_state) /\ IsNumber(power_state)
         THEN Some(PowerKw(power_state)) ELSE None
    ELSE None

\* The loads as _update_loads_runtime_state leaves them.
UpdateLoadsRuntimeState(ls) ==
    [i \in 1..Len(ls) |->
        [ls[i] EXCEPT !.enabled = RefreshedEnabled(ls[i]),
                      !.current_switch_state = RefreshedSwitchState(ls[i]),
                      !.current_ampere = RefreshedAmpere(ls[i]),
                      !.current_power_kw = RefreshedPowerKw(ls[i])]]

----------------------------------------------------------------------------
\* The executors.  They run one after another on a world w: the loads, the
\* entity states, the service calls issued so far in the tick, whether an
\* exception has escaped, and the names of the loads acted on (actions_taken,
\* restored).  services_up tells whether hass.services.async_call works in
\* this tick or raises.

World(ls, hs) ==
    [loads |-> ls, hass |-> hs, calls |-> <<>>, raised |-> FALSE,
     actions_taken |-> <<>>]

\* One call of hass.services.async_call, and whether it returned.
ServiceCall(domain, service, entity_id, value, ok) ==
    [domain |-> domain, service |-> service, entity_id |-> entity_id,
     value |-> value, ok |-> ok]

\* The entity after a service call that returned: an available switch takes
\* the commanded state, an available number the commanded value.
Obeyed(state, call) ==
    IF Unavailable(state) THEN state
    ELSE IF call.service = "turn_on" THEN Text("on")
    ELSE IF call.service = "turn_off" THEN Text("off")
    ELSE [state EXCEPT !.state = "number", !.value = call.value]

\* await self.hass.services.async_call(..., blocking=True)
AsyncCall(w, domain, service, entity_id, value, services_up) ==
    LET call == ServiceCall(domain, service, entity_id, value, services_up) IN
    [w EXCEPT !.calls = Append(@, call),
              !.hass = IF services_up
                       THEN [@ EXCEPT ![entity_id] = Obeyed(@, call)]
                       ELSE @]

\* What an executor hands back: the world it leaves and its return value.
Returned(w, value) == [w |-> w, value |-> value]

\* An exception leaving the executor: float() of a state string that spells
\* no number.
Raised(w) == [w |-> [w EXCEPT !.raised = TRUE], value |-> 0]

\* round(): a quotient n / d >= 0 to the nearest integer, halves to even.
Round(n, d) ==
    LET q == n \div d
        r == n % d
    IN  IF 2 * r < d THEN q
        ELSE IF 2 * r > d THEN q + 1
        ELSE IF q % 2 = 0 THEN q ELSE q + 1

Max(a, b) == IF a >= b THEN a ELSE b

Min(a, b) == IF a <= b THEN a ELSE b

\* MeaningfulPower taking any reading that is not negative.
M_MeaningfulPower(current_power_kw) == current_power_kw >= 0

\* current_power_kw > 0.1, the reading that is taken for a measurement.
MeaningfulPower(current_power_kw) == current_power_kw > 10 * Threshold

\* _async_reduce_ev_load taking one ampere off whatever the device allows.
M_AsyncReduceEvLoad(w, i, needed_reduction, services_up) ==
    LET entity_id == Val(w.loads[i].ampere_number_entity_id)
        state == w.hass[entity_id]
    IN  IF Unavailable(state) THEN Returned(w, 0)
        ELSE Returned(AsyncCall(w, "number", "set_value", entity_id, state.value - 1,
                                services_up),
                      IF services_up THEN PowerPerAmpere(w.loads[i]) ELSE 0)

\* _async_reduce_ev_load: returns the reduction achieved, in mW.  A number
\* entity always reports its min and max attributes.
AsyncReduceEvLoad(w, i, needed_reduction, services_up) ==
    LET load == w.loads[i] IN
    IF IsNone(load.ampere_number_entity_id) THEN Returned(w, 0)
    ELSE
    LET entity_id == Val(load.ampere_number_entity_id)
        state == w.hass[entity_id]
    IN
    IF Unavailable(state) THEN Returned(w, 0)
    ELSE IF ~IsNumber(state) THEN Raised(w)
    ELSE
    LET current_ampere == state.value
        entity_min == Val(state.min)
        entity_max == Val(state.max)
    IN
    IF current_ampere <= entity_min THEN Returned(w, 0)
    ELSE
    LET power_state ==
            IF IsNone(load.power_sensor_entity_id) THEN Missing
            ELSE w.hass[Val(load.power_sensor_entity_id)]
        measured == ~Unavailable(power_state) /\ IsNumber(power_state)
        learns == /\ measured
                  /\ current_ampere > 0
                  /\ MeaningfulPower(PowerKw(power_state))
        power_per_ampere ==
            IF learns THEN PowerKw(power_state) \div current_ampere
            ELSE IF ~IsNone(load.measured_power_per_ampere)
            THEN Val(load.measured_power_per_ampere)
            ELSE PowerPerAmpere(load)
        current_power_kw ==
            IF learns THEN PowerKw(power_state)
            ELSE power_per_ampere * current_ampere
        target_power_kw == Max(0, current_power_kw - needed_reduction)
        rounded ==
            IF power_per_ampere > 0
            THEN Round(target_power_kw, power_per_ampere)
            ELSE entity_min
        lowered == Max(entity_min, rounded)
        reduced ==
            IF lowered >= current_ampere
            THEN Max(entity_min, current_ampere - 1)
            ELSE lowered
        new_ampere == Min(entity_max, Max(entity_min, reduced))
        actual_reduction_kw == (current_ampere - new_ampere) * power_per_ampere
        learned ==
            IF learns
            THEN [w EXCEPT !.loads[i].measured_power_per_ampere = Some(power_per_ampere)]
            ELSE w
    IN  Returned(AsyncCall(learned, "number", "set_value", entity_id, new_ampere,
                           services_up),
                 IF services_up THEN actual_reduction_kw ELSE 0)

\* _async_reduce_switch_load: returns the power the switch was drawing, in mW.
AsyncReduceSwitchLoad(w, i, services_up) ==
    LET load == w.loads[i] IN
    IF IsNone(load.switch_entity_id) THEN Returned(w, 0)
    ELSE
    LET entity_id == Val(load.switch_entity_id)
        state == w.hass[entity_id]
    IN
    IF state = Missing THEN Returned(w, 0)
    ELSE IF load.switch_inverted /\ state.state = "on" THEN Returned(w, 0)
    ELSE IF ~load.switch_inverted /\ state.state # "on" THEN Returned(w, 0)
    ELSE
    LET target_service == IF load.switch_inverted THEN "turn_on" ELSE "turn_off"
        power_state ==
            IF IsNone(load.power_sensor_entity_id) THEN Missing
            ELSE w.hass[Val(load.power_sensor_entity_id)]
    IN
    IF ~IsNone(load.power_sensor_entity_id) /\ ~Unavailable(power_state)
        /\ ~IsNumber(power_state)
    THEN Raised(w)
    ELSE
    LET power_kw ==
            IF ~IsNone(load.power_sensor_entity_id)
            THEN (IF ~Unavailable(power_state) THEN PowerKw(power_state) ELSE 0)
            ELSE AssumedOrZero(load)
    IN  Returned(AsyncCall(w, "switch", target_service, entity_id, 0, services_up),
                 IF services_up THEN power_kw ELSE 0)

\* _async_reduce_single_load
AsyncReduceSingleLoad(w, i, needed_reduction, services_up) ==
    IF w.loads[i].load_type = EV_AMPERE
    THEN AsyncReduceEvLoad(w, i, needed_reduction, services_up)
    ELSE IF w.loads[i].load_type = SWITCH
    THEN AsyncReduceSwitchLoad(w, i, services_up)
    ELSE Returned(w, 0)

\* ExecutePlan recording the action whatever reduction was reported.
M_ExecutePlan(w, plan, current_time, services_up) ==
    IF w.raised THEN w
    ELSE
    LET done == AsyncReduceSingleLoad(w, plan.load, plan.needed_reduction, services_up)
    IN  IF ~done.w.raised
        THEN [done.w EXCEPT !.loads[plan.load].last_action_time = current_time,
                            !.actions_taken = Append(@, plan.load)]
        ELSE done.w

\* The body of the loop of _async_execute_reductions for one plan.
ExecutePlan(w, plan, current_time, services_up) ==
    IF w.raised THEN w
    ELSE
    LET done == AsyncReduceSingleLoad(w, plan.load, plan.needed_reduction, services_up)
    IN  IF ~done.w.raised /\ done.value > 0
        THEN [done.w EXCEPT !.loads[plan.load].last_action_time = current_time,
                            !.actions_taken = Append(@, plan.load)]
        ELSE done.w

\* for plan in reduction_plans: ...
RECURSIVE ExecutePlans(_, _, _, _)
ExecutePlans(w, reduction_plans, current_time, services_up) ==
    IF reduction_plans = <<>> THEN w
    ELSE ExecutePlans(ExecutePlan(w, Head(reduction_plans), current_time, services_up),
                      Tail(reduction_plans), current_time, services_up)

\* 3600 / remaining_seconds: how many times the rest of the hour fits in the
\* hour.  The ticks of the model fall on instants where it is whole.
PeriodShare(remaining_seconds) == 3600 \div remaining_seconds

\* Products of the restore arithmetic are held at 2000 kW, far above
\* entity_max amperes at any power per ampere, so the clamp to entity_max
\* gives the same current.
PowerCap == 2000 * KW

\* additional_power_kw = (available_margin_kwh * 3600.0) / remaining_seconds
AdditionalPowerKw(available_margin_kwh, remaining_seconds) ==
    IF available_margin_kwh > PowerCap \div PeriodShare(remaining_seconds)
    THEN PowerCap
    ELSE available_margin_kwh * PeriodShare(remaining_seconds)

\* power_per_ampere = (load.voltage * load.phases) / 1000.0, in mW per ampere.
RestorePowerPerAmpere(load) == load.voltage * load.phases * 1000

\* _async_restore_ev_load setting the device maximum whatever the margin.
M_AsyncRestoreEvLoad(w, i, available_margin_kwh, remaining_seconds, services_up) ==
    LET entity_id == Val(w.loads[i].ampere_number_entity_id)
        state == w.hass[entity_id]
    IN  IF Unavailable(state) \/ ~IsNumber(state) THEN Returned(w, FALSE)
        ELSE IF state.value >= Val(state.max) THEN Returned(w, FALSE)
        ELSE Returned(AsyncCall(w, "number", "set_value", entity_id, Val(state.max),
                                services_up),
                      services_up)

\* _async_restore_ev_load: TRUE when the current was raised.  A state string
\* that spells no number raises ValueError, which _async_restore_single_load
\* catches.
AsyncRestoreEvLoad(w, i, available_margin_kwh, remaining_seconds, services_up) ==
    LET load == w.loads[i] IN
    IF IsNone(load.ampere_number_entity_id) THEN Returned(w, FALSE)
    ELSE
    LET entity_id == Val(load.ampere_number_entity_id)
        state == w.hass[entity_id]
    IN
    IF Unavailable(state) \/ ~IsNumber(state) THEN Returned(w, FALSE)
    ELSE
    LET current_ampere == state.value
        entity_min == Val(state.min)
        entity_max == Val(state.max)
        power_state ==
            IF IsNone(load.power_sensor_entity_id) THEN Missing
            ELSE w.hass[Val(load.power_sensor_entity_id)]
        learns == /\ ~Unavailable(power_state)
                  /\ IsNumber(power_state)
                  /\ current_ampere > 0
                  /\ MeaningfulPower(PowerKw(power_state))
        power_per_ampere ==
            IF learns THEN PowerKw(power_state) \div current_ampere
            ELSE IF ~IsNone(load.measured_power_per_ampere)
            THEN Val(load.measured_power_per_ampere)
            ELSE RestorePowerPerAmpere(load)
        additional_power_kw == AdditionalPowerKw(available_margin_kwh, remaining_seconds)
        target_power == current_ampere * power_per_ampere + additional_power_kw
        new_ampere ==
            IF power_per_ampere <= 0 THEN entity_max
            ELSE IF target_power <= entity_min * power_per_ampere
            THEN Min(entity_max, entity_min)
            ELSE IF target_power >= entity_max * power_per_ampere THEN entity_max
            ELSE Min(entity_max, Max(entity_min, Round(target_power, power_per_ampere)))
        learned ==
            IF learns
            THEN [w EXCEPT !.loads[i].measured_power_per_ampere = Some(power_per_ampere)]
            ELSE w
    IN  IF new_ampere <= current_ampere THEN Returned(learned, FALSE)
        ELSE Returned(AsyncCall(learned, "number", "set_value", entity_id, new_ampere,
                                services_up),
                      services_up)

\* _async_restore_single_load: TRUE when the load was commanded to its
\* maximum consumption.
AsyncRestoreSingleLoad(w, i, available_margin_kwh, remaining_seconds, services_up) ==
    LET load == w.loads[i] IN
    IF load.load_type = EV_AMPERE /\ ~IsNone(load.ampere_number_entity_id)
    THEN AsyncRestoreEvLoad(w, i, available_margin_kwh, remaining_seconds, services_up)
    ELSE IF load.load_type = SWITCH /\ ~IsNone(load.switch_entity_id)
    THEN LET entity_id == Val(load.switch_entity_id)
             state == w.hass[entity_id]
         IN  IF state = Missing THEN Returned(w, FALSE)
             ELSE IF load.switch_inverted /\ state.state = "off" THEN Returned(w, FALSE)
             ELSE IF ~load.switch_inverted /\ state.state = "on" THEN Returned(w, FALSE)
             ELSE Returned(AsyncCall(w, "switch",
                                     IF load.switch_inverted THEN "turn_off" ELSE "turn_on",
                                     entity_id, 0, services_up),
                           services_up)
    ELSE Returned(w, FALSE)

\* available_margin_kwh=999.0, in mWh.
RestoreAllMargin == 999 * KW

\* The loop of _async_restore_all_loads from the i-th load on.
RECURSIVE RestoreAllFrom(_, _, _, _)
RestoreAllFrom(w, i, remaining_seconds, services_up) ==
    IF i > Len(w.loads) THEN w
    ELSE LET done == AsyncRestoreSingleLoad(w, i, RestoreAllMargin, remaining_seconds,
                                            services_up)
             after == IF done.value
                      THEN [done.w EXCEPT !.actions_taken = Append(@, w.loads[i].name)]
                      ELSE done.w
         IN  RestoreAllFrom(after, i + 1, remaining_seconds, services_up)

\* _async_restore_all_loads passing over the list when a load is disabled.
M_AsyncRestoreAllLoads(w, remaining_seconds, services_up) ==
    IF \A i \in 1..Len(w.loads) : w.loads[i].enabled
    THEN RestoreAllFrom(w, 1, remaining_seconds, services_up)
    ELSE w

\* _async_restore_all_loads
AsyncRestoreAllLoads(w, remaining_seconds, services_up) ==
    RestoreAllFrom(w, 1, remaining_seconds, services_up)

\* The loop of _async_execute_restorations: it stops at the first load
\* restored.
RECURSIVE RestoreFirst(_, _, _, _, _, _)
RestoreFirst(w, loads_to_restore, current_time, available_margin_kwh, remaining_seconds, services_up) ==
    IF loads_to_restore = <<>> THEN w
    ELSE LET i == Head(loads_to_restore)
             done == AsyncRestoreSingleLoad(w, i, available_margin_kwh,
                                            remaining_seconds, services_up)
         IN  IF done.value
             THEN [done.w EXCEPT !.loads[i].last_action_time = current_time,
                                 !.actions_taken = Append(@, i)]
             ELSE RestoreFirst(done.w, Tail(loads_to_restore), current_time,
                               available_margin_kwh, remaining_seconds, services_up)

\* _async_execute_restorations going on down the list after a load was
\* restored.
M_AsyncExecuteRestorations(w, loads_to_restore, current_time, max_hour_kwh, projected_end_kwh, remaining_seconds, services_up) ==
    LET first == RestoreFirst(w, loads_to_restore, current_time,
                              max_hour_kwh - projected_end_kwh, remaining_seconds,
                              services_up)
    IN  IF first.actions_taken = <<>> THEN first
        ELSE RestoreFirst(first,
                          SelectSeq(loads_to_restore,
                                    LAMBDA i : i # first.actions_taken[1]),
                          current_time, max_hour_kwh - projected_end_kwh,
                          remaining_seconds, services_up)

\* _async_execute_restorations
AsyncExecuteRestorations(w, loads_to_restore, current_time, max_hour_kwh, projected_end_kwh, remaining_seconds, services_up) ==
    RestoreFirst(w, loads_to_restore, current_time, max_hour_kwh - projected_end_kwh,
                 remaining_seconds, services_up)

\* _async_execute_reductions
AsyncExecuteReductions(w, reduction_plans, current_time, services_up) ==
    ExecutePlans(w, reduction_plans, current_time, services_up)

----------------------------------------------------------------------------
\* The tick: _async_update_data

\* remaining_seconds = (next_hour - now).total_seconds()
RemainingSeconds(now) == 3600 - (now % 3600)

\* now.hour
HourOf(now) == (now \div 3600) % 24

\* DEFAULT_RESTORE_MARGIN = 0.1 kWh, the restore_margin of the tick's call.
DefaultRestoreMargin == 10 * Threshold

\* if mode == OperationMode.CONTROL or OperationMode.MONITOR: the executor
\* run in Monitor mode too.
M_ExecutesControl(mode) == mode \in { CONTROL, MONITOR }

\* if mode == OperationMode.CONTROL
ExecutesControl(mode) == mode = CONTROL

\* elif mode == OperationMode.OFF
RestoresAll(mode) == mode = OFF

\* The dict a tick returns; update_failed is "" then.  A tick that raises
\* UpdateFailed returns nothing: update_failed holds its message.
Data(failure, current, projected, needed, power, remaining, max, target, capacity, mode, last_action) ==
    [update_failed |-> failure,
     current_hour_kwh |-> current, projected_end_kwh |-> projected,
     needed_reduction_kw |-> needed, house_power_kw |-> power,
     remaining_seconds |-> remaining, max_hour_kwh |-> max,
     effective_target_kwh |-> target.effective_target_kwh,
     target_fraction |-> target.fraction,
     available_down_capacity_kw |-> capacity,
     mode |-> mode, last_action |-> last_action]

NoTarget == [effective_target_kwh |-> <<0, 1>>, fraction |-> <<0, 1>>]

NoData == Data("", 0, 0, 0, None, 0, 0, NoTarget, 0, "", "")

Failure(message) == Data(message, 0, 0, 0, None, 0, 0, NoTarget, 0, "", "")

\* effective_target_kwh in mWh, from the kWh quotient of
\* calculate_effective_target.
TargetKwh(target) ==
    target.effective_target_kwh[1] * (KW \div target.effective_target_kwh[2])

\* The arguments of _async_execute_control's call of
\* calculate_regulation_decision.
ControlArgs(needed_reduction_kw, effective_target_kwh, projected_end_kwh, current_time, current_power_kw, remaining_minutes) ==
    [needed_reduction_kw |-> needed_reduction_kw,
     projected_end_kwh |-> projected_end_kwh,
     max_hour_kwh |-> effective_target_kwh, current_time |-> current_time,
     current_power_kw |-> current_power_kw,
     remaining_minutes |-> Some(remaining_minutes),
     restore_margin |-> DefaultRestoreMargin, cooldown |-> DefaultCooldown]

\* _async_execute_control, given the decision of the engine.
AsyncExecuteControl(w, decision, a, remaining_seconds, services_up) ==
    IF decision.action = "reduce"
    THEN AsyncExecuteReductions(w, decision.loads_to_reduce, a.current_time, services_up)
    ELSE IF decision.action = "restore"
    THEN AsyncExecuteRestorations(w, decision.loads_to_restore, a.current_time,
                                  a.max_hour_kwh, a.projected_end_kwh,
                                  remaining_seconds, services_up)
    ELSE w

\* The entity a load is acted on through: its switch, or its current setting.
StateEntity(load) ==
    IF load.load_type = SWITCH THEN Val(load.switch_entity_id)
    ELSE Val(load.ampere_number_entity_id)

\* When a service call for each load last returned, after a tick that ran at
\* current_time and left the world w.
Issued(before, w, current_time) ==
    [i \in 1..Len(w.loads) |->
        IF \E k \in 1..Len(w.calls) :
               w.calls[k].ok /\ w.calls[k].entity_id = StateEntity(w.loads[i])
        THEN current_time
        ELSE before[i]]

\* self.last_action as the executors leave it.
LastActionAfter(last_action, mode, decision, w) ==
    IF w.raised THEN last_action
    ELSE IF ExecutesControl(mode) /\ decision.action = "reduce"
    THEN (IF w.actions_taken # <<>> THEN "Reduced loads" ELSE "Cannot reduce further")
    ELSE IF ExecutesControl(mode) /\ decision.action = "restore"
    THEN (IF w.actions_taken # <<>> THEN "Restored loads" ELSE last_action)
    ELSE IF RestoresAll(mode)
    THEN (IF w.actions_taken # <<>> THEN "Restored all loads" ELSE last_action)
    ELSE last_action

\* The refresh of the loads run before the energy reading is looked at.
M_Abort(message) ==
    /\ data' = Failure(message)
    /\ pc' = "failed"
    /\ calls' = <<>>
    /\ args' = NoArgs
    /\ result' = InitialResult
    /\ loads' = UpdateLoadsRuntimeState(loads)
    /\ UNCHANGED <<config, hass, clock, runtime, issued>>

\* raise UpdateFailed(...) before anything was written: the tick ends there.
Abort(message) ==
    /\ data' = Failure(message)
    /\ pc' = "failed"
    /\ calls' = <<>>
    /\ args' = NoArgs
    /\ result' = InitialResult
    /\ UNCHANGED <<loads, config, hass, clock, runtime, issued>>

\* The tick from the hour rollover check on, with the readings it took.
Update(current_hour_kwh, house_power_kw, services_up) ==
    LET remaining_seconds == RemainingSeconds(clock)
        rolled == HourOf(clock) # runtime.last_hour
        last_action == IF rolled THEN "Hour rollover" ELSE runtime.last_action
        projected_end_kwh ==
            IF ~IsNone(house_power_kw) /\ remaining_seconds > 0
            THEN current_hour_kwh + Val(house_power_kw) \div PeriodShare(remaining_seconds)
            ELSE current_hour_kwh
        mode == config.mode
        remaining_minutes == remaining_seconds \div 60
    IN  \E refreshed \in { UpdateLoadsRuntimeState(loads) } :
        \E available_down_capacity_kw \in { CalculateAvailableDownCapacity(refreshed) } :
        \E target \in { CalculateEffectiveTarget(
                      TargetArgs(config.max_hour_kwh, remaining_minutes,
                                 <<Some(available_down_capacity_kw), house_power_kw>>,
                                 config.base_target_fraction, config.ramp_start_minutes)) } :
        \E effective_target_kwh \in { TargetKwh(target) } :
        \E needed_reduction_kw \in {
            IF remaining_seconds > 0
            THEN Max(0, (projected_end_kwh - effective_target_kwh)
                            * PeriodShare(remaining_seconds))
            ELSE 0 } :
        \E a \in { ControlArgs(needed_reduction_kw, effective_target_kwh, projected_end_kwh,
                         clock, house_power_kw, remaining_minutes) } :
        \E decision \in { CalculateRegulationDecision(refreshed, a) } :
        \E w \in { IF ExecutesControl(mode)
             THEN AsyncExecuteControl(World(refreshed, hass), decision, a, remaining_seconds, services_up)
             ELSE IF RestoresAll(mode)
             THEN AsyncRestoreAllLoads(World(refreshed, hass), remaining_seconds, services_up)
             ELSE World(refreshed, hass) } :
        \E left \in { LastActionAfter(last_action, mode, decision, w) } :
        /\ loads' = w.loads
        /\ hass' = w.hass
        /\ calls' = w.calls
        /\ runtime' = [last_hour |-> HourOf(clock), last_action |-> left]
        /\ issued' = Issued(issued, w, clock)
        /\ args' = IF ExecutesControl(mode) THEN a ELSE NoArgs
        /\ result' = IF ExecutesControl(mode) THEN decision ELSE InitialResult
        /\ data' = IF w.raised THEN Failure("Error parsing sensor values")
                   ELSE Data("", current_hour_kwh, projected_end_kwh, needed_reduction_kw,
                             house_power_kw, remaining_seconds, config.max_hour_kwh,
                             target, available_down_capacity_kw, mode, left)
        /\ pc' = IF w.raised THEN "failed" ELSE "updated"
        /\ UNCHANGED <<config, clock>>

\* _async_update_data
AsyncUpdateData ==
    \E services_up \in BOOLEAN :
        LET hour_energy_state == StatesGet(config.hour_energy_sensor)
            house_power_state ==
                IF IsNone(config.house_power_sensor) THEN Missing
                ELSE StatesGet(Val(config.house_power_sensor))
        IN  IF Unavailable(hour_energy_state)
            THEN Abort("Error updating data: Energy sensor unavailable")
            ELSE IF ~IsNumber(hour_energy_state)
            THEN Abort("Error parsing sensor values")
            ELSE IF Unavailable(house_power_state)
            THEN Update(hour_energy_state.value, None, services_up)
            ELSE IF ~IsNumber(house_power_state)
            THEN Abort("Error parsing sensor values")
            ELSE Update(hour_energy_state.value, Some(PowerKw(house_power_state)),
                        services_up)

----------------------------------------------------------------------------
\* The coordinator among its entities: ticks, the clock, the meter

\* How many of the instants below the clock passes through.
MaxInstants == 3

\* The instants a tick can fall on, from 02:54 on: 6 and 3 minutes before the
\* hour, the hour, and 30 and 15 minutes before the next.  The first three
\* are 180 s apart, inside the 300 s cooldown; the first and the third are
\* 360 s apart, past the 300 s cooldown and at the very end of the 360 s one.
TickInstants == <<10440, 10620, 10800, 12600, 13500>>

Modes == { OFF, MONITOR, CONTROL }

\* What the energy sensor and the house power sensor report together.
\* A missing, unknown or unavailable energy sensor, and state strings that
\* spell no number;
BrokenMeterings ==
    { Missing, Text("unknown"), Text("unavailable"), Text("error") }
        \X { Reading(2000, "W") }

\* 1 kWh used at 2 kW, 4 kWh used at 8 kW, 4 kWh used with the power
\* unknown, 3.7 kWh and 3.6 kWh used at 0 kW, 4.055 kWh used at 2 kW (which
\* is 0.05 kW over the target six minutes before the hour).
Meterings ==
    BrokenMeterings
    \cup { <<Reading(KW, "kWh"), Reading(2000, "W")>>,
           <<Reading(4 * KW, "kWh"), Reading(8000, "W")>>,
           <<Reading(4 * KW, "kWh"), Text("unavailable")>>,
           <<Reading(37 * (KW \div 10), "kWh"), Reading(0, "W")>>,
           <<Reading(36 * (KW \div 10), "kWh"), Reading(0, "W")>>,
           <<Reading(4055 * (KW \div 1000), "kWh"), Reading(2000, "W")>> }

HeaterStates == { Text("on"), Text("off"), Text("unavailable") }

\* The charger's current setting, between 6 A and 16 A.
ChargerAmpereStates ==
    { Text("unavailable"), Amperes(6, 6, 16), Amperes(10, 6, 16), Amperes(16, 6, 16) }

\* The charger's power sensor: unavailable, reading nothing, reading 2.4 kW.
ChargerPowerStates == { Text("unavailable"), Reading(0, "W"), Reading(2400, "W") }

ChargerEnabledStates == { Text("on"), Text("unavailable") }

\* hass.states
States(metering, heater, ampere, power, enabled) ==
    [entity_id \in { EnergySensor, HousePowerSensor, HeaterSwitch, ChargerAmpere,
                     ChargerPower, ChargerEnabled } |->
        CASE entity_id = EnergySensor -> metering[1]
          [] entity_id = HousePowerSensor -> metering[2]
          [] entity_id = HeaterSwitch -> heater
          [] entity_id = ChargerAmpere -> ampere
          [] entity_id = ChargerPower -> power
          [] OTHER -> enabled]

\* __init__: the loads built from the configuration, nothing done yet.
InitTick ==
    /\ config \in { Config(mode, heater) : mode \in Modes, heater \in HeaterDicts }
    /\ loads = LoadConfig(config)
    /\ hass \in { States(m, h, a, p, e) :
                    m \in Meterings, h \in HeaterStates, a \in ChargerAmpereStates,
                    p \in ChargerPowerStates, e \in ChargerEnabledStates }
    /\ calls = <<>>
    /\ clock = TickInstants[1]
    /\ runtime = [last_hour |-> HourOf(clock), last_action |-> "Initialized"]
    /\ issued = [i \in 1..Len(loads) |-> 0]
    /\ data = NoData
    /\ args = NoArgs
    /\ result = InitialResult
    /\ pc = "idle"

\* The surroundings move on: what the model recorded of the last tick (its
\* return value, its engine call, its service calls) is dropped.
Forgotten ==
    /\ data' = NoData
    /\ calls' = <<>>
    /\ args' = NoArgs
    /\ result' = InitialResult
    /\ pc' = "idle"

\* Time passes to a later instant.
TimePasses ==
    /\ \E j \in 1..MaxInstants :
         /\ TickInstants[j] > clock
         /\ clock' = TickInstants[j]
    /\ Forgotten
    /\ UNCHANGED <<loads, config, hass, runtime, issued>>

\* The energy and house power sensors report new states.
MeterReports ==
    /\ \E m \in Meterings :
         /\ <<hass[EnergySensor], hass[HousePowerSensor]>> # m
         /\ hass' = [hass EXCEPT ![EnergySensor] = m[1], ![HousePowerSensor] = m[2]]
    /\ Forgotten
    /\ UNCHANGED <<loads, config, clock, runtime, issued>>

NextTick == AsyncUpdateData \/ TimePasses \/ MeterReports

SpecTick == InitTick /\ [][NextTick]_vars

\* Ticks of an installation whose charger has an enabled-override entity in
\* any of its states, or none and a configured flag: the heater is enabled
\* and ON, the charger draws 10 A.
InitOverride ==
    /\ config \in { [Config(mode, HeaterDict) EXCEPT !.loads[2].enabled_entity_id = e,
                                                     !.loads[2].enabled = flag] :
                       mode \in Modes, e \in { None, Some(ChargerEnabled) },
                       flag \in BOOLEAN }
    /\ loads = LoadConfig(config)
    /\ hass \in { States(m, Text("on"), Amperes(10, 6, 16), p, e) :
                    m \in Meterings, p \in ChargerPowerStates,
                    e \in { Missing } \cup
                         { Text(t) : t \in { "unknown", "unavailable", "on", "off", "ON",
                                             "true", "True", "1", "0" } } }
    /\ calls = <<>>
    /\ clock = TickInstants[1]
    /\ runtime = [last_hour |-> HourOf(clock), last_action |-> "Initialized"]
    /\ issued = [i \in 1..Len(loads) |-> 0]
    /\ data = NoData
    /\ args = NoArgs
    /\ result = InitialResult
    /\ pc = "idle"

SpecOverride == InitOverride /\ [][AsyncUpdateData]_vars

\* The max_hour_kwh a number entity can set, in whole kWh.
MaxHourOptions == { 5, 10 }

\* update_config keeping the Load objects when the load dicts are the same.
M_UpdateConfig ==
    /\ \E mode \in Modes, max \in MaxHourOptions :
         /\ <<mode, max>> # <<config.mode, config.max_hour_kwh>>
         /\ config' = [config EXCEPT !.mode = mode, !.max_hour_kwh = max]
    /\ data' = NoData
    /\ calls' = <<>>
    /\ args' = NoArgs
    /\ result' = InitialResult
    /\ pc' = "configured"
    /\ UNCHANGED <<loads, hass, clock, runtime, issued>>

\* async_select_option / async_set_native_value / async_update_options up to
\* the refresh they request: the entry's data with a new mode, a new
\* max_hour_kwh or both, then coordinator.update_config(new_data).
UpdateConfig ==
    /\ \E mode \in Modes, max \in MaxHourOptions :
         /\ <<mode, max>> # <<config.mode, config.max_hour_kwh>>
         /\ config' = [config EXCEPT !.mode = mode, !.max_hour_kwh = max]
    /\ loads' = LoadConfig(config')
    /\ data' = NoData
    /\ calls' = <<>>
    /\ args' = NoArgs
    /\ result' = InitialResult
    /\ pc' = "configured"
    /\ UNCHANGED <<hass, clock, runtime, issued>>

\* An installation in Control mode whose options change between the ticks:
\* the heater is ON, the charger draws 2.4 kW at 10 A.
InitConfig ==
    /\ config = Config(CONTROL, HeaterDict)
    /\ loads = LoadConfig(config)
    /\ hass \in { States(m, Text("on"), Amperes(10, 6, 16), Reading(2400, "W"), Text("on")) :
                    m \in Meterings }
    /\ calls = <<>>
    /\ clock = TickInstants[1]
    /\ runtime = [last_hour |-> HourOf(clock), last_action |-> "Initialized"]
    /\ issued = [i \in 1..Len(loads) |-> 0]
    /\ data = NoData
    /\ args = NoArgs
    /\ result = InitialResult
    /\ pc = "idle"

SpecConfig == InitConfig /\ [][NextTick \/ UpdateConfig]_vars

BoilerSwitch == "switch.boiler"

\* An installation in Control mode with two switch loads: a boiler assumed
\* to draw 10 kW, cut first, whose switch entity may be unavailable, and the
\* 2 kW water heater, cut after it.  Ticks recur and time advances.
InitLive ==
    /\ config = [Config(CONTROL, HeaterDict) EXCEPT
                    !.loads = <<[HeaterDict EXCEPT !.switch_entity_id = Some(BoilerSwitch),
                                                   !.assumed_power_kw = Some(10 * KW)],
                                [HeaterDict EXCEPT !.priority = 2]>>]
    /\ loads = LoadConfig(config)
    /\ hass \in { [entity_id \in { EnergySensor, HousePowerSensor, BoilerSwitch, HeaterSwitch } |->
                     CASE entity_id = EnergySensor -> m[1]
                       [] entity_id = HousePowerSensor -> m[2]
                       [] entity_id = BoilerSwitch -> b
                       [] OTHER -> h] :
                    m \in Meterings, b \in HeaterStates, h \in { Text("on"), Text("off") } }
    /\ calls = <<>>
    /\ clock = TickInstants[1]
    /\ runtime = [last_hour |-> HourOf(clock), last_action |-> "Initialized"]
    /\ issued = [i \in 1..Len(loads) |-> 0]
    /\ data = NoData
    /\ args = NoArgs
    /\ result = InitialResult
    /\ pc = "idle"

\* update_interval: the tick runs again and again; time.time() moves on.
SpecLive ==
    InitLive /\ [][NextTick]_vars /\ WF_vars(AsyncUpdateData) /\ WF_vars(TimePasses)

----------------------------------------------------------------------------
\* Vocabulary of the tick properties

\* A step that is a tick: the steps of the surroundings leave pc at "idle".
TickStep == pc' # "idle"

\* The period-energy reading is absent, unknown or unavailable.
EnergyReadingLost ==
    \/ hass[EnergySensor] = Missing
    \/ hass[EnergySensor].state = "unknown"
    \/ hass[EnergySensor].state = "unavailable"

\* The tick ended with UpdateFailed.
ReportedFailure == pc = "failed" /\ data.update_failed # ""

\* No service call was issued by the last tick.
NoCommand == calls = <<>>

\* The fields of the i-th load that only the executors write.
ActionFields(ls, i) == <<ls[i].last_action_time, ls[i].measured_power_per_ampere>>

----------------------------------------------------------------------------
\* Aborted ticks and the operating mode

\* C19: a tick taken while the period-energy reading is absent, unknown or
\* unavailable ends with a reported UpdateFailed, issues no service call,
\* and leaves every field of every load, and every entity, as it was.
C19_LostEnergyAbortsTick ==
    [][(TickStep /\ EnergyReadingLost) =>
          /\ ReportedFailure'
          /\ NoCommand'
          /\ loads' = loads
          /\ hass' = hass]_vars

\* A Control-mode tick failed on a lost energy reading while the entities
\* held states the loads had not yet taken up.
C19_Witness ==
    /\ ReportedFailure
    /\ EnergyReadingLost
    /\ config.mode = CONTROL
    /\ UpdateLoadsRuntimeState(loads) # loads
    /\ hass[HeaterSwitch].state = "on"

\* C20: in Monitor mode a tick issues no service call, changes no entity and
\* leaves every load's last_action_time and learned power ratio as they were,
\* whatever it computed.
C20_MonitorOnlyObserves ==
    [][(TickStep /\ config.mode = MONITOR) =>
          /\ NoCommand'
          /\ hass' = hass
          /\ \A i \in 1..Len(loads) : ActionFields(loads', i) = ActionFields(loads, i)]_vars

\* A Monitor-mode tick computed a needed reduction above 0.01 kW with the
\* heater enabled and ON, and the charger drawing a power it could learn from.
C20_Witness ==
    /\ pc = "updated"
    /\ config.mode = MONITOR
    /\ data.needed_reduction_kw > Threshold
    /\ loads[1].enabled /\ loads[1].current_switch_state = Some("on")
    /\ loads[2].enabled /\ loads[2].current_ampere = Some(10)
    /\ loads[2].current_power_kw = Some(2400 * 1000)

----------------------------------------------------------------------------
\* Off mode

\* The service that puts a switch in its maximum-consumption state.
MaxConsumptionService(load) == IF load.switch_inverted THEN "turn_off" ELSE "turn_on"

\* The load reports a state that is not its maximum consumption: a switch
\* that says "on" or "off" and is in its reduced state, a current setting
\* below the maximum of the device.
BelowMaximum(load, hs) ==
    LET state == hs[StateEntity(load)] IN
    IF load.load_type = SWITCH
    THEN /\ state.state \in { "on", "off" }
         /\ state.state # (IF load.switch_inverted THEN "off" ELSE "on")
    ELSE state.state = "number" /\ state.value < Val(state.max)

\* The call commands the load to its maximum consumption: the switch to its
\* consuming state, the current to the maximum of the device.
CommandsMaximum(call, load, hs) ==
    /\ call.entity_id = StateEntity(load)
    /\ IF load.load_type = SWITCH
       THEN call.domain = "switch" /\ call.service = MaxConsumptionService(load)
       ELSE /\ call.domain = "number" /\ call.service = "set_value"
            /\ call.value = Val(hs[StateEntity(load)].max)

\* Among the calls cs there is one that commands the load to its maximum.
CommandedToMaximum(cs, load, hs) ==
    \E k \in 1..Len(cs) : CommandsMaximum(cs[k], load, hs)

\* Every load below its maximum was commanded to it by the step, and no
\* last_action_time was written.
EverythingReleased ==
    \A i \in 1..Len(loads) :
        /\ BelowMaximum(loads[i], hass) => CommandedToMaximum(calls', loads[i], hass)
        /\ loads'[i].last_action_time = loads[i].last_action_time

\* _async_restore_all_loads run on the loads and entities as they are now
\* would command every load below its maximum to it, and write no
\* last_action_time: also when loads are disabled or inside their cooldown.
RestoreAllWouldRelease ==
    \A services_up \in BOOLEAN :
        LET w == AsyncRestoreAllLoads(World(loads, hass), RemainingSeconds(clock),
                                      services_up)
        IN  \A i \in 1..Len(loads) :
                /\ BelowMaximum(loads[i], hass)
                      => CommandedToMaximum(w.calls, loads[i], hass)
                /\ w.loads[i].last_action_time = loads[i].last_action_time

\* C21 as stated: in Off mode every tick commands every load that is below
\* its maximum consumption to its maximum-consumption state (switch ON, or OFF
\* when inverted; the current to the maximum of the device), disabled or not,
\* and changes no last_action_time.
C21_EveryOffTickReleases ==
    [][(TickStep /\ config.mode = OFF) => EverythingReleased]_vars

\* C21: in Off mode every tick that gets past its sensor readings commands
\* every load that reports a state below its maximum consumption to its
\* maximum-consumption state (switch ON, or OFF when inverted; the current to
\* the maximum of the device), whether the load is enabled or not, and changes
\* no last_action_time; and the restoration of all loads does so on any
\* loads, inside their cooldown or not.
C21_CompletedOffTickReleases ==
    [][/\ (TickStep /\ config.mode = OFF /\ pc' = "updated") => EverythingReleased
       /\ RestoreAllWouldRelease]_vars

\* An Off-mode tick turned the heater on and set the charger, which is
\* disabled, from below 16 A to 16 A.
C21_Witness ==
    /\ pc = "updated"
    /\ config.mode = OFF
    /\ ~loads[2].enabled
    /\ Len(calls) = 2
    /\ calls[1].service = "turn_on" /\ calls[1].ok
    /\ calls[2].service = "set_value" /\ calls[2].value = 16 /\ calls[2].ok
    /\ loads[2].current_ampere = Some(10)

----------------------------------------------------------------------------
\* Restoring in Control mode

\* A Control-mode tick that ran to its end with a decision to restore.
RestoreTick ==
    /\ TickStep
    /\ config.mode = CONTROL
    /\ pc' = "updated"
    /\ result'.action = "restore"

\* The place of load i in the sequence order (0: not in it).
PlaceIn(order, i) ==
    IF \E k \in 1..Len(order) : order[k] = i
    THEN CHOOSE k \in 1..Len(order) : order[k] = i
    ELSE 0

\* The load a service call went to.
LoadOf(call, ls) == CHOOSE i \in 1..Len(ls) : StateEntity(ls[i]) = call.entity_id

\* The service calls cs went to loads of order, each to a later one than the
\* call before it.
CallsFollow(cs, order, ls) ==
    /\ \A k \in 1..Len(cs) : PlaceIn(order, LoadOf(cs[k], ls)) > 0
    /\ \A k \in 1..Len(cs) : \A l \in 1..Len(cs) :
          k < l => PlaceIn(order, LoadOf(cs[k], ls)) < PlaceIn(order, LoadOf(cs[l], ls))

\* The loads of order come by priority, highest number first.
DescendingPriority(order, ls) ==
    \A k \in 1..Len(order) : \A l \in 1..Len(order) :
        k < l => ls[order[k]].priority >= ls[order[l]].priority

\* C22: on a Control-mode tick whose decision is to restore, the loads are
\* tried in the returned order, which is by descending priority, and nothing
\* is tried after the first success: at most one restore command succeeds, it
\* is the last call of the tick, and last_action_time is written for that
\* load only, to the time of the tick.
C22_OneRestorePerTick ==
    [][RestoreTick =>
          /\ DescendingPriority(result'.loads_to_restore, loads')
          /\ CallsFollow(calls', result'.loads_to_restore, loads')
          /\ \A k \in 1..Len(calls') : calls'[k].ok => k = Len(calls')
          /\ \A i \in 1..Len(loads) :
                IF \E k \in 1..Len(calls') : calls'[k].ok /\ LoadOf(calls'[k], loads') = i
                THEN loads'[i].last_action_time = clock
                ELSE loads'[i].last_action_time = loads[i].last_action_time]_vars

\* A restoring tick had the charger and then the heater to restore, raised
\* the charger's current and left the heater, which was OFF, alone.
C22_Witness ==
    /\ pc = "updated"
    /\ config.mode = CONTROL
    /\ result.action = "restore"
    /\ result.loads_to_restore = <<2, 1>>
    /\ Len(calls) = 1
    /\ calls[1].ok /\ calls[1].entity_id = ChargerAmpere
    /\ hass[HeaterSwitch].state = "off"
    /\ ~loads[1].switch_inverted
    /\ loads[2].last_action_time = clock
    /\ loads[1].last_action_time = 0

----------------------------------------------------------------------------
\* Cooldown between commands

\* The step's tick had a service call for the i-th load return.
Commanded(i) ==
    \E k \in 1..Len(calls') :
        calls'[k].ok /\ calls'[k].entity_id = StateEntity(loads[i])

\* C23: in Control mode, with the configuration left alone, once a command
\* (reduce or restore) went out for a load at tick time t, no command goes out
\* for that load at a later tick whose time is before t plus the load's
\* cooldown duration.
C23_CooldownBetweenCommands ==
    [][(TickStep /\ config.mode = CONTROL) =>
          \A i \in 1..Len(loads) :
              (Commanded(i) /\ issued[i] > 0 /\ clock > issued[i])
                  => clock >= issued[i] + loads[i].timeout]_vars

----------------------------------------------------------------------------
\* Purity of the engine and its helpers

----------------------------------------------------------------------------
\* Restoring a load whose state is not known

\* The state entity of the load reports unknown or unavailable.
StateUnknown(load, hs) == hs[StateEntity(load)].state \in { "unknown", "unavailable" }

\* The call is a restore command for the load: its switch to the
\* maximum-consumption state, or a setting of its current.
RestoreCommand(call, load) ==
    /\ call.entity_id = StateEntity(load)
    /\ IF load.load_type = SWITCH
       THEN call.service = MaxConsumptionService(load)
       ELSE call.service = "set_value"

\* C25: in no tick is a restore command (the switch to its
\* maximum-consumption state, or a current increase) issued for a load
\* whose state entity reports unknown or unavailable.
C25_UnknownNeverRestored ==
    [][TickStep =>
          \A i \in 1..Len(loads) :
              StateUnknown(loads[i], hass)
                  => \A k \in 1..Len(calls') : ~RestoreCommand(calls'[k], loads[i])]_vars

----------------------------------------------------------------------------
\* The cooldown argument of the engine

\* Values of the cooldown argument: none at all, the default, ten minutes.
Cooldowns == { 0, DefaultCooldown, 5 * DefaultCooldown }

----------------------------------------------------------------------------
\* The switch reduction planner

\* The switch is known to be in its reduced state: a normal switch reports a
\* state and it is not ON; an inverted switch reports ON.
KnownReduced(load) ==
    IF load.switch_inverted
    THEN load.current_switch_state = <<"on">>
    ELSE load.current_switch_state # <<>> /\ load.current_switch_state # <<"on">>

\* The measured power when there is one above 0, else the assumed power,
\* else 0.
MeasuredElseAssumed(load) ==
    IF load.current_power_kw # <<>> /\ load.current_power_kw[1] > 0
    THEN load.current_power_kw[1]
    ELSE IF load.assumed_power_kw # <<>> THEN load.assumed_power_kw[1]
    ELSE 0

----------------------------------------------------------------------------
\* Reducing the charger's current

\* A Control-mode tick that ran to its end with a decision to reduce.
ReduceTick ==
    /\ TickStep
    /\ config.mode = CONTROL
    /\ pc' = "updated"
    /\ result'.action = "reduce"

\* The i-th load is among the plans of the decision.
Planned(decision, i) ==
    \E k \in 1..Len(decision.loads_to_reduce) : decision.loads_to_reduce[k].load = i

\* The service calls of cs that went to the load.
CallsFor(cs, load) == SelectSeq(cs, LAMBDA c : c.entity_id = StateEntity(load))

\* C28: when the executor reduces a ContinuousCurrent load whose current
\* reading is above the device minimum, it commands one new current, which
\* is at least the device minimum, at least one ampere below the reading and
\* at most the device maximum; when the reading is at the device minimum or
\* below, or unknown, it issues no command and reports 0 kW: the load's
\* last_action_time stays as it was.
C28_ReducedWithinBounds ==
    [][ReduceTick =>
          \A i \in 1..Len(loads) :
              (loads[i].load_type = EV_AMPERE /\ Planned(result', i)) =>
                  LET state == hass[StateEntity(loads[i])]
                      sent == CallsFor(calls', loads[i])
                  IN  IF state.state = "number" /\ state.value > state.min[1]
                      THEN /\ Len(sent) = 1
                           /\ sent[1].service = "set_value"
                           /\ state.min[1] <= sent[1].value
                           /\ sent[1].value <= state.value - 1
                           /\ sent[1].value <= state.max[1]
                      ELSE /\ sent = <<>>
                           /\ loads'[i].last_action_time = loads[i].last_action_time]_vars

\* A tick that needed 0.05 kW less, far less than one ampere of the
\* charger, took the charger from 10 A to 9 A.
C28_Witness ==
    /\ pc = "updated"
    /\ config.mode = CONTROL
    /\ result.action = "reduce"
    /\ data.needed_reduction_kw = 5 * Threshold
    /\ loads[2].current_ampere = Some(10)
    /\ calls = <<ServiceCall("number", "set_value", ChargerAmpere, 9, TRUE)>>
    /\ loads[2].last_action_time = clock

----------------------------------------------------------------------------
\* Restoring the charger's current

\* The step is a tick that runs the restore executor on the i-th load: an
\* Off-mode tick, or a Control-mode tick whose decision is to restore and
\* lists the load first.
RestoreTried(i) ==
    /\ TickStep
    /\ pc' = "updated"
    /\ \/ config.mode = OFF
       \/ /\ config.mode = CONTROL
          /\ result'.action = "restore"
          /\ result'.loads_to_restore # <<>>
          /\ result'.loads_to_restore[1] = i

\* The margin the tick hands to the restore executor, in mWh.
MarginOfTick ==
    IF config.mode = OFF THEN RestoreAllMargin
    ELSE args'.max_hour_kwh - args'.projected_end_kwh

\* The power per ampere the restore executor goes by, in mW per ampere: the
\* power reading over the current when the reading is above 0.1 kW, else
\* the learned ratio, else the one from the configured voltage and phases.
RestoreRatio(load, hs) ==
    LET power == hs[load.power_sensor_entity_id[1]]
        current == hs[StateEntity(load)].value
    IN  IF /\ load.power_sensor_entity_id # <<>>
           /\ power.state = "number"
           /\ current > 0
           /\ PowerKw(power) > 10 * Threshold
        THEN PowerKw(power) \div current
        ELSE IF load.measured_power_per_ampere # <<>>
        THEN load.measured_power_per_ampere[1]
        ELSE RestorePowerPerAmpere(load)

\* current + (margin * 3600 / remaining seconds) / power per ampere, rounded
\* and held between the device minimum and maximum.
RestoreTarget(load, hs, margin, remaining_seconds) ==
    LET state == hs[StateEntity(load)]
        ratio == RestoreRatio(load, hs)
        rounded == Round(state.value * ratio + AdditionalPowerKw(margin, remaining_seconds),
                         ratio)
    IN  IF rounded < state.min[1] THEN state.min[1]
        ELSE IF rounded > state.max[1] THEN state.max[1]
        ELSE rounded

\* C29: restoring a ContinuousCurrent load issues a command only when the
\* target (the current plus the margin's power over the power per ampere,
\* held between the device minimum and maximum and rounded) is above the
\* present current, and the command sets that target; otherwise nothing is
\* commanded.  A restore never lowers the current and never commands a
\* value outside the device bounds.
C29_RestoreRaisesToTarget ==
    [][\A i \in 1..Len(loads) :
          (loads[i].load_type = EV_AMPERE /\ RestoreTried(i)
              /\ hass[StateEntity(loads[i])].state = "number") =>
              LET state == hass[StateEntity(loads[i])]
                  sent == CallsFor(calls', loads[i])
                  target == RestoreTarget(loads[i], hass, MarginOfTick,
                                          RemainingSeconds(clock))
              IN  IF target > state.value
                  THEN /\ Len(sent) = 1
                       /\ sent[1].service = "set_value"
                       /\ sent[1].value = target
                       /\ sent[1].value > state.value
                       /\ state.min[1] <= sent[1].value
                       /\ sent[1].value <= state.max[1]
                  ELSE sent = <<>>]_vars

\* On the hour, with 1 kWh used at 2 kW, a restoring tick raised the
\* charger from 10 A to 13 A, short of its 16 A maximum.
C29_Witness ==
    /\ pc = "updated"
    /\ config.mode = CONTROL
    /\ result.action = "restore"
    /\ loads[2].current_ampere = Some(10)
    /\ calls = <<ServiceCall("number", "set_value", ChargerAmpere, 13, TRUE)>>
    /\ loads[2].last_action_time = clock

----------------------------------------------------------------------------
\* Power per ampere without a learned ratio

\* V / 1000 kW per ampere on one phase, 1.732 * V / 1000 on three, in mW per
\* ampere.
NominalPowerPerAmpere(load) ==
    IF load.phases = 3 THEN 1732 * load.voltage ELSE 1000 * load.voltage

\* The load is a ContinuousCurrent load with no learned ratio, enabled, with
\* a current above 0 and no power reading above 0.
UnlearnedCharger(load) ==
    /\ load.load_type = EV_AMPERE
    /\ load.measured_power_per_ampere = None
    /\ load.enabled
    /\ load.current_ampere # None /\ Val(load.current_ampere) > 0
    /\ ~(load.current_power_kw # None /\ Val(load.current_power_kw) > 0)

\* C30: for a ContinuousCurrent load with no learned ratio the capacity
\* estimate, the cooldown potential, the reduce executor and the restore
\* executor all go by the same power per ampere: V / 1000 kW on one phase,
\* 1.732 * V / 1000 kW on three.
C30_OnePowerPerAmpere ==
    \A i \in 1..Len(loads) :
        UnlearnedCharger(loads[i]) =>
            LET nominal == NominalPowerPerAmpere(loads[i])
                current == Val(loads[i].current_ampere)
            IN  /\ LoadCapacity(loads[i]) = current * nominal
                /\ CalculateLoadReductionPotential(loads[i]) = current * nominal
                /\ PowerPerAmpere(loads[i]) = nominal
                /\ RestorePowerPerAmpere(loads[i]) = nominal

----------------------------------------------------------------------------
\* The learned power per ampere

\* The charger's current and power as the entities report them to a tick:
\* both are numbers, the current is above 0 and the power above 0.1 kW.
LearnableReading(load, hs) ==
    /\ load.power_sensor_entity_id # None
    /\ hs[StateEntity(load)].state = "number"
    /\ hs[Val(load.power_sensor_entity_id)].state = "number"
    /\ hs[StateEntity(load)].value > 0
    /\ PowerKw(hs[Val(load.power_sensor_entity_id)]) > 10 * Threshold

\* C31: a ContinuousCurrent load's learned ratio changes only in a tick
\* whose reading has the current above 0 and the power above 0.1 kW, and
\* then to that power over that current; in every other step it keeps its
\* value, and a learned ratio is above 0.
C31_RatioLearnedFromReading ==
    [][\A i \in 1..Len(loads) :
          /\ loads'[i].measured_power_per_ampere # loads[i].measured_power_per_ampere =>
                /\ TickStep
                /\ loads[i].load_type = EV_AMPERE
                /\ LearnableReading(loads[i], hass)
                /\ loads'[i].measured_power_per_ampere
                      = Some(PowerKw(hass[Val(loads[i].power_sensor_entity_id)])
                                \div hass[StateEntity(loads[i])].value)
          /\ loads'[i].measured_power_per_ampere # None =>
                Val(loads'[i].measured_power_per_ampere) > 0]_vars

\* The charger learned 0.24 kW per ampere when it was taken down from 10 A,
\* and kept it through a later tick that left it alone.
C31_Witness ==
    /\ pc = "updated"
    /\ config.mode = CONTROL
    /\ loads[2].measured_power_per_ampere = Some(240000)
    /\ loads[2].current_ampere # None
    /\ Val(loads[2].current_ampere) < 10
    /\ loads[2].last_action_time > 0
    /\ loads[2].last_action_time < clock
    /\ calls = <<>>

----------------------------------------------------------------------------
\* Effect and last_action_time

\* The reduce executor has something to command for the load: a switch that
\* is not known to be in its reduced state, a current above the device
\* minimum.
Commandable(load, hs) ==
    LET state == hs[StateEntity(load)] IN
    IF load.load_type = SWITCH
    THEN IF load.switch_inverted THEN state.state # "on" ELSE state.state = "on"
    ELSE state.state = "number" /\ state.value > Val(state.min)

\* The reduction the executor reports for the load after the calls cs: none
\* when its call did not return; the power known for a switch; for a current,
\* the amperes taken off, each worth a power above 0.
ReportedReduction(load, hs, cs) ==
    LET sent == CallsFor(cs, load) IN
    IF sent = <<>> \/ ~sent[1].ok THEN 0
    ELSE IF load.load_type = SWITCH
    THEN (IF load.assumed_power_kw # None THEN Val(load.assumed_power_kw) ELSE 0)
    ELSE hs[StateEntity(load)].value - sent[1].value

\* C32: in a Control-mode tick a load's last_action_time becomes the tick
\* time exactly when the executor's action on it had effect (a reduction
\* reported above 0 kW, a restore that succeeded) and otherwise stays as it
\* was; a call that fails or a reduction of 0 kW does not end the tick, and
\* every plan is still executed: each planned load the executor has
\* something to command for gets its call, in the order of the plans.
C32_EffectStampsTheLoad ==
    [][/\ ReduceTick =>
            /\ \A i \in 1..Len(loads) :
                  /\ loads'[i].last_action_time =
                        IF ReportedReduction(loads[i], hass, calls') > 0
                        THEN clock ELSE loads[i].last_action_time
                  /\ (Planned(result', i) /\ Commandable(loads[i], hass))
                        <=> CallsFor(calls', loads[i]) # <<>>
            /\ \A k \in 1..Len(calls') : \A l \in 1..Len(calls') :
                  k < l => \E m \in 1..Len(result'.loads_to_reduce) :
                              \E n \in 1..Len(result'.loads_to_reduce) :
                                  /\ m < n
                                  /\ result'.loads_to_reduce[m].load = LoadOf(calls'[k], loads)
                                  /\ result'.loads_to_reduce[n].load = LoadOf(calls'[l], loads)
       /\ RestoreTick =>
            \A i \in 1..Len(loads) :
                loads'[i].last_action_time =
                    IF \E k \in 1..Len(calls') :
                           calls'[k].ok /\ LoadOf(calls'[k], loads) = i
                    THEN clock ELSE loads[i].last_action_time
       /\ (TickStep /\ config.mode = CONTROL /\ calls' # <<>>) => pc' = "updated"]_vars

\* A reducing tick turned off the heater, for which no power is known: 0 kW
\* was reported and its last_action_time stayed 0; the tick went on to the
\* charger, took it down and recorded that.
C32_Witness ==
    /\ pc = "updated"
    /\ config.mode = CONTROL
    /\ result.action = "reduce"
    /\ Len(calls) = 2
    /\ calls[1] = ServiceCall("switch", "turn_off", HeaterSwitch, 0, TRUE)
    /\ loads[1].assumed_power_kw = None
    /\ loads[1].last_action_time = 0
    /\ calls[2].entity_id = ChargerAmpere /\ calls[2].ok
    /\ loads[2].last_action_time = clock

----------------------------------------------------------------------------
\* The enabled-override entity

\* The state of the load's override entity as the tick found it.
OverrideState(load) == hass[Val(load.enabled_entity_id)]

\* The loads of ls that are enabled, in order.
EnabledOnly(ls) == SelectSeq(ls, LAMBDA l : l.enabled)

\* After a tick that ran to its end, a load with an override entity is
\* enabled exactly when the entity's state is one of the spellings; a load
\* without one keeps its flag; a load that is not enabled is in no plan and
\* adds nothing to the down capacity.
OverrideRule(spellings) ==
    (TickStep /\ pc' = "updated") =>
        /\ \A i \in 1..Len(loads) :
              /\ loads[i].enabled_entity_id # None =>
                    (loads'[i].enabled <=> /\ OverrideState(loads[i]) # Missing
                                           /\ OverrideState(loads[i]).state \in spellings)
              /\ loads[i].enabled_entity_id = None => loads'[i].enabled = loads[i].enabled
              /\ ~loads'[i].enabled => ~Planned(result', i)
        /\ data'.available_down_capacity_kw
              = CalculateAvailableDownCapacity(
                    [k \in 1..Len(EnabledOnly(loads')) |->
                        [EnabledOnly(loads')[k] EXCEPT !.enabled = TRUE]])

\* C33 as stated: after the refresh a load with an enabled-override entity
\* is enabled if and only if the entity's state is one of on, true, 1;
\* missing, unknown or unavailable disables it; a disabled load is in no plan
\* and adds 0 to the down capacity; a load without an override entity keeps
\* its configured flag.
C33_EnabledIffOnTrueOne ==
    [][OverrideRule({ "on", "true", "1" })]_vars

\* C33: the same, the entity's state being compared without regard to
\* case: ON and True enable the load as on and true do.
C33_EnabledIffSpelledOn ==
    [][OverrideRule({ "on", "true", "1", "ON", "On", "TRUE", "True" })]_vars

\* A Control-mode tick that needed a reduction found the charger's override
\* entity unavailable: the charger, drawing 10 A, is disabled and in no plan,
\* and the down capacity is the heater's 2 kW.
C33_Witness ==
    /\ pc = "updated"
    /\ config.mode = CONTROL
    /\ result.action = "reduce"
    /\ loads[2].enabled_entity_id # None
    /\ hass[ChargerEnabled].state = "unavailable"
    /\ ~loads[2].enabled
    /\ loads[2].current_ampere = Some(10)
    /\ ~Planned(result, 2)
    /\ data.available_down_capacity_kw = 2 * KW

----------------------------------------------------------------------------
\* The two estimators

\* C34: calculate_available_down_capacity of a load list is the sum of
\* _calculate_load_reduction_potential over its enabled loads.
C34_CapacityIsSummedPotential ==
    pc = "measured" =>
        result = SumSeq([i \in 1..Len(loads) |->
                           IF loads[i].enabled
                           THEN CalculateLoadReductionPotential(loads[i])
                           ELSE 0])

\* The capacity of a disabled switch that is ON and an enabled EV charger
\* whose current is unknown while its power sensor reads 3.5 kW: 3.5 kW.
C34_Witness ==
    /\ pc = "measured"
    /\ Len(loads) = 2
    /\ ~loads[1].enabled /\ CalculateLoadReductionPotential(loads[1]) > 0
    /\ loads[2].enabled /\ loads[2].load_type = EV_AMPERE
    /\ loads[2].current_ampere = None
    /\ result = 350 * Threshold

----------------------------------------------------------------------------
\* The target over the hour

\* The fraction calculate_effective_target returns for the arguments of the
\* call with remaining minutes in place of its remaining_minutes.
FractionAt(remaining) ==
    CalculateEffectiveTarget([args EXCEPT !.remaining_minutes = remaining]).fraction

\* C35: with maxEnergy, down capacity, current power, baseFraction <= 1 and
\* rampStartMinutes > 0 held fixed, the target fraction never decreases as
\* minutesRemaining decreases to 0: every later call of the hour returns a
\* fraction at least as large as this one.
C35_FractionNeverDecreases ==
    Targeted =>
        \A later \in 0..args.remaining_minutes :
            RatLeq(result.fraction, FractionAt(later))

\* Within the ramp of a derated base of 0.75: the fraction is above the
\* 0.70 of the early hour and below that of a minute later.
C35_Witness ==
    /\ Targeted
    /\ DerateApplies
    /\ args.base_fraction = 75
    /\ args.remaining_minutes > 0
    /\ args.remaining_minutes < args.ramp_start_minutes
    /\ RatEq(FractionAt(args.ramp_start_minutes + 1), <<70, 100>>)
    /\ ~RatLeq(result.fraction, FractionAt(args.ramp_start_minutes + 1))
    /\ ~RatLeq(FractionAt(args.remaining_minutes - 1), result.fraction)

----------------------------------------------------------------------------
\* The order of the plans

\* Load i is enabled, outside its cooldown and reducible.
Candidate(i) == loads[i].enabled /\ ~Cooling(i) /\ Reducible(i)

\* C36: no priority inversion.  loads_to_reduce is a prefix of the
\* priority-sorted list of the loads that are enabled, outside their cooldown
\* and reducible: its plans are of such loads, in that order, and a load is
\* never planned while such a load that sorts before it is left out.
C36_PlansArePrefixOfCandidates ==
    Decided =>
        /\ \A i \in PlannedNames : Candidate(i)
        /\ \A k, m \in 1..Len(result.loads_to_reduce) :
              k < m => Precedes(result.loads_to_reduce[k].load,
                                result.loads_to_reduce[m].load)
        /\ \A i \in PlannedNames :
              \A j \in LoadIndexes :
                  (Candidate(j) /\ Precedes(j, i)) => j \in PlannedNames

\* The lowest-priority candidate is planned and does not cover the need; the
\* candidate that sorts after it is left out, deferred to a load on cooldown
\* that covers what is left.
C36_Witness ==
    /\ Decided
    /\ Len(result.loads_to_reduce) = 1
    /\ result.remaining_reduction > Threshold
    /\ \E j \in LoadIndexes :
         /\ Candidate(j)
         /\ Precedes(result.loads_to_reduce[1].load, j)
         /\ SkippedForCooldown(j)

----------------------------------------------------------------------------
\* The shape of a decision

\* C37: every returned decision is well-formed.  Action "none" has both
\* lists empty; "restore" has no plan, a non-empty loads_to_restore and a
\* remaining_reduction of 0; "reduce" has an empty loads_to_restore; the two
\* lists are never both non-empty.
C37_DecisionWellFormed ==
    Decided =>
        /\ result.action \in { "none", "restore", "reduce" }
        /\ result.action = "none" =>
              (result.loads_to_reduce = <<>> /\ result.loads_to_restore = <<>>)
        /\ result.action = "restore" =>
              /\ result.loads_to_reduce = <<>>
              /\ result.loads_to_restore # <<>>
              /\ result.remaining_reduction = 0
        /\ result.action = "reduce" => result.loads_to_restore = <<>>
        /\ result.loads_to_reduce = <<>> \/ result.loads_to_restore = <<>>

\* A need that a load on cooldown covers while a candidate waits: the
\* action is "none", both lists are empty and the need is left standing.
C37_Witness ==
    /\ Decided
    /\ result.action = "none"
    /\ result.reason.kind = "waiting_for_cooldown"
    /\ result.loads_to_reduce = <<>> /\ result.loads_to_restore = <<>>
    /\ result.remaining_reduction > Threshold
    /\ \E i \in LoadIndexes : SkippedForCooldown(i)

----------------------------------------------------------------------------
\* A switch of unknown state, inside and outside its cooldown

\* The load at position i is an enabled switch whose state is unknown.
UnknownSwitch(i) ==
    /\ loads[i].enabled
    /\ loads[i].load_type = SWITCH
    /\ loads[i].current_switch_state = None

\* C38: a switch inside its cooldown whose state is unknown has reduction
\* potential 0 and never causes a deferral: with a need > 0.01 kW the decision
\* is the one made without the load.  Outside its cooldown the planner takes
\* the same unknown state for reducible: the walk plans the load when it
\* reaches it with a need that the loads on cooldown before it do not cover.
C38_UnknownSwitchDefersNothing ==
    (Decided /\ args.needed_reduction_kw > Threshold) =>
        \A i \in LoadIndexes :
            UnknownSwitch(i) =>
                IF Cooling(i)
                THEN /\ CalculateLoadReductionPotential(loads[i]) = 0
                     /\ result = CalculateRegulationDecision(
                                     [loads EXCEPT ![i].enabled = FALSE], args)
                ELSE (/\ RemainingAt(i) > Threshold
                      /\ CoolingPotentialBefore(i) < RemainingAt(i))
                        => i \in PlannedNames

\* 1 kW is needed.  A switch of unknown state, assumed to draw 1 kW, is
\* inside its cooldown; a load that sorts after it is planned all the same,
\* and so is a switch of unknown state outside its cooldown, for 1 kW.
C38_Witness ==
    /\ Decided
    /\ args.needed_reduction_kw = KW
    /\ \E c, h \in LoadIndexes :
         /\ UnknownSwitch(c) /\ Cooling(c)
         /\ loads[c].assumed_power_kw = Some(KW)
         /\ Precedes(c, h)
         /\ h \in PlannedNames
    /\ \E k \in 1..Len(result.loads_to_reduce) :
         /\ UnknownSwitch(result.loads_to_reduce[k].load)
         /\ result.loads_to_reduce[k].reduction_kw = KW

----------------------------------------------------------------------------
\* A change of the options

\* The names in loads_to_restore of the decision of the step's tick.
RestoredNames ==
    { result'.loads_to_restore[k] : k \in 1..Len(result'.loads_to_restore) }

\* C39: update_config rebuilds every Load from the configuration, also when
\* only the mode or only max_hour_kwh changes: afterwards every load has
\* last_action_time = 0 and no learned ratio and is outside its cooldown,
\* and the decision of the next tick holds no load back for a cooldown: it
\* waits for none, and a restore decision lists every enabled load.
C39_UpdateConfigRebuildsLoads ==
    [][/\ pc' = "configured" =>
            /\ Len(loads') = Len(config'.loads)
            /\ \A i \in 1..Len(loads') :
                  /\ loads'[i].last_action_time = 0
                  /\ loads'[i].measured_power_per_ampere = None
                  /\ ~InCooldown(loads'[i], clock')
       /\ (pc = "configured" /\ pc' = "updated" /\ ExecutesControl(config.mode)) =>
            /\ result'.reason.kind \notin { "waiting_for_cooldown", "all_loads_in_cooldown" }
            /\ result'.action = "restore" =>
                  RestoredNames = { i \in 1..Len(loads') : loads'[i].enabled }
      ]_vars

\* The heater was turned off less than its 300 s cooldown ago; after the
\* change of the options its last_action_time is 0 again and no cooldown
\* holds it.
C39_Witness ==
    /\ pc = "configured"
    /\ hass[HeaterSwitch].state = "off"
    /\ issued[1] > 0
    /\ clock - issued[1] < HeaterDict.timeout
    /\ loads[1].last_action_time = 0
    /\ ~InCooldown(loads[1], clock)

----------------------------------------------------------------------------
\* Waiting for a cooldown ends

\* The load at position i is an enabled switch in its consuming state, with
\* a measured or assumed power > 0.
ConsumingSwitch(i) ==
    /\ loads[i].enabled
    /\ loads[i].load_type = SWITCH
    /\ hass[StateEntity(loads[i])].state = (IF loads[i].switch_inverted THEN "off" ELSE "on")
    /\ ~IsNone(loads[i].assumed_power_kw)
    /\ Val(loads[i].assumed_power_kw) > 0

\* Control mode, a consuming switch, and a needed reduction > 0.01 kW at
\* the tick that ran last.
ReductionDue ==
    /\ config.mode = CONTROL
    /\ \E i \in 1..Len(loads) : ConsumingSwitch(i)
    /\ pc # "idle" => (pc = "updated" /\ data.needed_reduction_kw > Threshold)

\* Time advances: the clock of the model has an instant left at which the
\* cooldown of every load that is inside one has run out.
TimeAdvances ==
    \A i \in 1..Len(loads) :
        InCooldown(loads[i], clock) =>
            \E j \in 1..MaxInstants :
                TickInstants[j] >= loads[i].last_action_time + loads[i].timeout

\* The tick that ran last issued a reduction command: a switch to the
\* reduced state.
ReductionCommanded ==
    \E k \in 1..Len(calls) : \E i \in 1..Len(loads) :
        /\ calls[k].entity_id = StateEntity(loads[i])
        /\ calls[k].service = (IF loads[i].switch_inverted THEN "turn_on" ELSE "turn_off")

\* C40: waiting for cooldown cannot defer reduction forever.  In Control
\* mode with ticks recurring and time advancing, if from some point on the
\* needed reduction stays > 0.01 kW and some enabled switch stays in its
\* consuming state with known power > 0, a tick issues a reduction command:
\* again and again either that condition is broken or a command is issued.
C40_ReductionEventuallyCommanded ==
    []<>(~(ReductionDue /\ TimeAdvances) \/ ReductionCommanded)

====
